---- MODULE Spec2Model ----
(***************************************************************************)
(* A state-machine model of @thaitype/shell (src/src/shell.ts): the eager  *)
(* API (execute / run / safeRun) and the deferred "fluent" API (asFluent,  *)
(* the $ function, lazy handles with a memoized execution promise).        *)
(*                                                                         *)
(* Conventions.                                                            *)
(*   - A JavaScript string is a sequence of one-character strings.         *)
(*   - A value that may be undefined / null is a sequence of length <= 1:  *)
(*     None is undefined (or null), Some(x) is the defined value x.        *)
(*   - A promise is a record with a state in                               *)
(*     {"pending", "fulfilled", "rejected"}.                                *)
(*   - JavaScript runs a synchronous stretch of code to completion, so one *)
(*     action is one such stretch: a call up to its first await, or one    *)
(*     promise reaction.                                                   *)
(***************************************************************************)
EXTENDS Naturals, Sequences, FiniteSets, TLC

VARIABLES
    config,     \* the options object handed to new Shell(options)
    shell,      \* the Shell instance's private fields (set by the constructor)
    call,       \* the eager call in progress or last settled (execute/run/safeRun)
    fluent,     \* what asFluent() returned: "none" before the call, then "function"
    handle,     \* the lazy handles the $ function created, by handle id
    calls       \* the eager calls whose promise the caller has awaited, oldest first

vars == <<config, shell, call, fluent, handle, calls>>

(***************************************************************************)
(* Optional values and strings                                             *)
(***************************************************************************)
None == <<>>
Some(x) == <<x>>
OptSet(S) == {None} \cup {Some(x) : x \in S}

\* ''  'a'  'b'  'a b'  ' '
EmptyStr == <<>>
SP == " "

RECURSIVE Join(_)
\* args.join(' ')
Join(args) ==
    IF args = <<>> THEN EmptyStr
    ELSE IF Len(args) = 1 THEN Head(args)
    ELSE Head(args) \o <<SP>> \o Join(Tail(args))

RECURSIVE Tok(_, _, _)
Tok(s, cur, acc) ==
    IF s = <<>> THEN (IF cur = <<>> THEN acc ELSE Append(acc, cur))
    ELSE IF Head(s) = SP
         THEN Tok(Tail(s), <<>>, IF cur = <<>> THEN acc ELSE Append(acc, cur))
         ELSE Tok(Tail(s), Append(cur, Head(s)), acc)

\* parseArgsStringToArgv(cmd): the command line split on white space
\* (the inputs of the model hold no quote characters)
Tokenize(s) == Tok(s, <<>>, <<>>)

(***************************************************************************)
(* Commands: string | string[]                                             *)
(***************************************************************************)
StrCmd(s) == [array |-> FALSE, text |-> s, argv |-> <<>>]
ArgvCmd(a) == [array |-> TRUE, text |-> EmptyStr, argv |-> a]

\* const args = Array.isArray(cmd) ? cmd : parseArgsStringToArgv(cmd)
ParseArgs(cmd) == IF cmd.array THEN cmd.argv ELSE Tokenize(cmd.text)

\* !program : the program is undefined (no argument at all) or the empty string
NoProgram(args) == args = <<>> \/ Head(args) = EmptyStr

(***************************************************************************)
(* Option objects.  An options object is a function from its own keys to   *)
(* values; a value is tagged as a plain object (which deepmerge merges     *)
(* key by key) or as anything else (which deepmerge replaces).             *)
(***************************************************************************)
Scalar(x) == [mergeable |-> FALSE, v |-> x]
Obj(m) == [mergeable |-> TRUE, v |-> m]
EmptyObject == [k \in {} |-> None]

\* { ...a, ...b } : the keys of b overlay those of a
Spread(a, b) ==
    [k \in DOMAIN a \cup DOMAIN b |-> IF k \in DOMAIN b THEN b[k] ELSE a[k]]

\* a shallow merge: the object of source replaces the object of target
MergeObject_Replace(target, source) == source

\* deepmerge's mergeObject on two plain objects whose values are not objects
MergeObject(target, source) ==
    [k \in DOMAIN target \cup DOMAIN source |->
        IF k \in DOMAIN source THEN source[k] ELSE target[k]]

\* deepmerge(target, source): a key of source replaces the key of target,
\* unless both hold plain objects, which are merged in turn
DeepMerge(target, source) ==
    [k \in DOMAIN target \cup DOMAIN source |->
        IF k \notin DOMAIN source THEN target[k]
        ELSE IF k \in DOMAIN target /\ source[k].mergeable /\ target[k].mergeable
             THEN Obj(MergeObject(target[k].v, source[k].v))
             ELSE source[k]]

\* a ?? b
Coalesce(a, b) == IF a = None THEN b ELSE a[1]

OutputModes == {"capture", "live", "all"}
ThrowModes == {"simple", "raw"}

(***************************************************************************)
(* The Shell instance                                                      *)
(***************************************************************************)
\* constructor(options): every field falls back to its built-in default
Constructor(o) ==
    [outputMode   |-> Coalesce(o.outputMode, "capture"),
     dryRun       |-> Coalesce(o.dryRun, FALSE),
     verbose      |-> Coalesce(o.verbose, FALSE),
     throwMode    |-> Coalesce(o.throwMode, "simple"),
     execaOptions |-> Coalesce(o.execaOptions, EmptyObject)]

(***************************************************************************)
(* execute(cmd, options)                                                   *)
(***************************************************************************)
\* new Error('No command provided.')
ErrNoCommand ==
    [name |-> "Error", format |-> "No command provided.",
     command |-> EmptyStr, exitCode |-> None, stderr |-> EmptyStr]

\* options?.outputMode ?? this.outputMode
EffOutputMode(options, sh) == Coalesce(options.outputMode, sh.outputMode)
\* options?.verbose || this.verbose : a call-level false does not override
EffVerbose_Or(options, sh) ==
    IF options.verbose = Some(TRUE) THEN TRUE ELSE sh.verbose

\* options?.verbose ?? this.verbose
EffVerbose(options, sh) == Coalesce(options.verbose, sh.verbose)
\* options?.dryRun ?? false : the instance's dryRun is not consulted
EffDryRun_CallOnly(options, sh) == Coalesce(options.dryRun, FALSE)

\* options?.dryRun ?? this.dryRun
EffDryRun(options, sh) == Coalesce(options.dryRun, sh.dryRun)

\* a stdioMap whose live mode also pipes the streams
StdioMap_LivePipes(mode) ==
    CASE mode = "capture" -> {"pipe"}
      [] mode = "live"    -> {"pipe", "inherit"}
      [] mode = "all"     -> {"pipe", "inherit"}

\* stdioMap[outputMode]: the wiring of one stream, as the set of its targets
StdioMap(mode) ==
    CASE mode = "capture" -> {"pipe"}
      [] mode = "live"    -> {"inherit"}
      [] mode = "all"     -> {"pipe", "inherit"}

\* const { outputMode, verbose, dryRun, ...commandExecaOptions } = options ?? {}
\* (throwOnError is not taken out: it stays among the process options)
CommandExecaOptions(options) ==
    IF options.throwOnError = None THEN options.rest
    ELSE Spread(options.rest, [throwOnError |-> Scalar(options.throwOnError[1])])

\* deepmerge(this.execaOptions, commandExecaOptions)
MergedExecaOptions(sh, options) ==
    DeepMerge(sh.execaOptions, CommandExecaOptions(options))

\* final options whose reject is always true, whatever the throw flag
FinalExecaOptions_Reject(sh, options) ==
    Spread([stdout |-> Scalar(StdioMap(EffOutputMode(options, sh))),
            stderr |-> Scalar(StdioMap(EffOutputMode(options, sh))),
            reject |-> Scalar(TRUE)],
           MergedExecaOptions(sh, options))

\* final options in which the wiring and reject are spread last, over the
\* merged process options
FinalExecaOptions_WiringLast(sh, options) ==
    Spread(MergedExecaOptions(sh, options),
           [stdout |-> Scalar(StdioMap(EffOutputMode(options, sh))),
            stderr |-> Scalar(StdioMap(EffOutputMode(options, sh))),
            reject |-> Scalar(Coalesce(options.throwOnError, TRUE))])

\* { ...stdioMap[outputMode], reject: options?.throwOnError ?? true, ...merged }
FinalExecaOptions(sh, options) ==
    Spread([stdout |-> Scalar(StdioMap(EffOutputMode(options, sh))),
            stderr |-> Scalar(StdioMap(EffOutputMode(options, sh))),
            reject |-> Scalar(Coalesce(options.throwOnError, TRUE))],
           MergedExecaOptions(sh, options))

\* `$ ${args.join(' ')}` with its context
LogLine(cmd, args, final) ==
    [message |-> <<"$", SP>> \o Join(args),
     context |-> [command |-> cmd, execaOptions |-> final]]

\* a logger call guarded by verbose alone
ShouldLog_VerboseOnly(verbose, dryRun) == verbose

\* if (verbose || dryRun) this.logger.debug(...)
ShouldLog(verbose, dryRun) == verbose \/ dryRun

\* a dry-run result that reports its streams as not captured
DryRunResult_Null ==
    [stdout |-> None, stderr |-> None, exitCode |-> Some(0), success |-> TRUE]

\* the result synthesized under dry-run
DryRunResult ==
    [stdout |-> Some(EmptyStr), stderr |-> Some(EmptyStr),
     exitCode |-> Some(0), success |-> TRUE]

\* An execution: one call of execute, from its call to the settling of the
\* promise it returns.
NoExecution == [state |-> "none"]

\* execute, from its call to its first await (or to its return or throw
\* when it has none)
ExecuteStart(sh, api, cmd, options) ==
    LET args == ParseArgs(cmd)
        base == [state |-> "rejected", api |-> api, cmd |-> cmd,
                 options |-> options, args |-> args, eff |-> None,
                 log |-> <<>>, spawn |-> <<>>, outcome |-> None,
                 result |-> None, error |-> Some(ErrNoCommand)]
    IN  IF NoProgram(args) THEN base
        ELSE
          LET outputMode == EffOutputMode(options, sh)
              verbose    == EffVerbose(options, sh)
              dryRun     == EffDryRun(options, sh)
              final      == FinalExecaOptions(sh, options)
              resolved   == [base EXCEPT
                  !.eff = Some([outputMode |-> outputMode, verbose |-> verbose,
                                dryRun |-> dryRun]),
                  !.error = None,
                  !.log = IF ShouldLog(verbose, dryRun)
                          THEN <<LogLine(cmd, args, final)>> ELSE <<>>]
          IN  IF dryRun
              THEN [resolved EXCEPT !.state = "fulfilled",
                                    !.result = Some(DryRunResult)]
              ELSE [resolved EXCEPT !.state = "awaiting",
                                    !.spawn = <<[program |-> Head(args),
                                                 args |-> Tail(args),
                                                 options |-> final]>>]

(***************************************************************************)
(* The spawn collaborator (execa) and the process it runs                  *)
(***************************************************************************)
\* what the stream holds for the caller: its text when the stream is piped,
\* undefined when it is only inherited
Captured(wiring, text) == IF "pipe" \in wiring THEN Some(text) ELSE None

\* the process failed: it never started, or it exited with a nonzero code
Failed(outcome) == outcome.kind = "nostart" \/ outcome.code # Some(0)

\* a collaborator that keeps no output of a process that failed
Execa_DropOutput(spawned, outcome) ==
    LET o == spawned.options
        settled == [threw |-> FALSE, execaError |-> FALSE,
                    exitCode |-> outcome.code,
                    stdout |-> IF Failed(outcome) THEN None
                               ELSE Captured(o["stdout"].v, outcome.out),
                    stderr |-> IF Failed(outcome) THEN None
                               ELSE Captured(o["stderr"].v, outcome.err)]
    IN  IF outcome.kind = "crash"
        THEN [settled EXCEPT !.threw = TRUE]
        ELSE IF Failed(outcome) /\ o["reject"].v
             THEN [settled EXCEPT !.threw = TRUE, !.execaError = TRUE]
             ELSE settled

\* await execa(program, cmdArgs, finalExecaOptions), once the process is over:
\* the collaborator returns a result, or throws an ExecaError when the
\* process failed and reject is set, or throws something else
Execa(spawned, outcome) ==
    LET o == spawned.options
        settled == [threw |-> FALSE, execaError |-> FALSE,
                    exitCode |-> outcome.code,
                    stdout |-> Captured(o["stdout"].v, outcome.out),
                    stderr |-> Captured(o["stderr"].v, outcome.err)]
    IN  IF outcome.kind = "crash"
        THEN [settled EXCEPT !.threw = TRUE]
        ELSE IF Failed(outcome) /\ o["reject"].v
             THEN [settled EXCEPT !.threw = TRUE, !.execaError = TRUE]
             ELSE settled

\* x != null ? String(x) : null : the empty text is kept
TruthyOrNull_Keep(x) == x

\* x ? String(x) : null
TruthyOrNull(x) == IF x = None \/ x = Some(EmptyStr) THEN None ELSE x
\* x || ''
OrEmpty(x) == IF x = None THEN EmptyStr ELSE x[1]

\* a result whose success only says that the process gave an exit code
SuccessResult_Started(r) ==
    [stdout   |-> TruthyOrNull(r.stdout),
     stderr   |-> TruthyOrNull(r.stderr),
     exitCode |-> r.exitCode,
     success  |-> r.exitCode # None]

\* the object of a successful await
SuccessResult(r) ==
    [stdout   |-> TruthyOrNull(r.stdout),
     stderr   |-> TruthyOrNull(r.stderr),
     exitCode |-> r.exitCode,
     success  |-> r.exitCode = Some(0)]

\* the object returned after a caught ExecaError that is not re-thrown
FailureResult ==
    [stdout |-> None, stderr |-> None, exitCode |-> None, success |-> FALSE]

\* a simple error whose message leaves the stderr text out
SimpleError_NoStderr(args, exitCode, stderr) ==
    [name |-> "Error",
     format |-> "Command failed: ${command}\nExit code: ${exitCode}\n${stderr}",
     command |-> Join(args), exitCode |-> exitCode, stderr |-> EmptyStr,
     cause |-> None]

\* new Error(`Command failed: ${args.join(' ')}\nExit code: ${exitCode}\n${stderr}`)
SimpleError(args, exitCode, stderr) ==
    [name |-> "Error",
     format |-> "Command failed: ${command}\nExit code: ${exitCode}\n${stderr}",
     command |-> Join(args), exitCode |-> exitCode, stderr |-> stderr,
     cause |-> None]

\* a raw-mode throw of a new Error made from the ExecaError's message
RawError_Rewrapped(args, r) ==
    [name |-> "Error", format |-> "execa",
     command |-> Join(args), exitCode |-> r.exitCode, stderr |-> OrEmpty(r.stderr),
     cause |-> None]

\* throw error : the collaborator's own ExecaError
RawError(args, r) ==
    [name |-> "ExecaError", format |-> "execa",
     command |-> Join(args), exitCode |-> r.exitCode, stderr |-> OrEmpty(r.stderr),
     cause |-> Some(r)]

\* an error of the collaborator that is no ExecaError
OtherError(args, r) ==
    [name |-> "TypeError", format |-> "other",
     command |-> Join(args), exitCode |-> None, stderr |-> EmptyStr,
     cause |-> Some(r)]

\* if (options?.throwOnError)
ThrowOnError(options) == options.throwOnError = Some(TRUE)

\* a catch block whose failure result keeps the exit code of the ExecaError
CatchExecaError_KeepCode(sh, c, r) ==
    IF ThrowOnError(c.options)
    THEN IF sh.throwMode = "raw"
         THEN [c EXCEPT !.state = "rejected", !.error = Some(RawError(c.args, r))]
         ELSE [c EXCEPT !.state = "rejected",
                        !.error = Some(SimpleError(c.args, r.exitCode,
                                                   OrEmpty(r.stderr)))]
    ELSE [c EXCEPT !.state = "fulfilled",
                   !.result = Some([FailureResult EXCEPT !.exitCode = r.exitCode])]

\* the catch block and the return after it, for the ExecaError r
CatchExecaError(sh, c, r) ==
    IF ThrowOnError(c.options)
    THEN IF sh.throwMode = "raw"
         THEN [c EXCEPT !.state = "rejected", !.error = Some(RawError(c.args, r))]
         ELSE [c EXCEPT !.state = "rejected",
                        !.error = Some(SimpleError(c.args, r.exitCode,
                                                   OrEmpty(r.stderr)))]
    ELSE [c EXCEPT !.state = "fulfilled", !.result = Some(FailureResult)]

\* an execute that returns the streams as the collaborator gives them
ExecuteResume_Raw(sh, c, r) ==
    IF ~r.threw
    THEN [c EXCEPT !.state = "fulfilled",
                   !.result = Some([stdout |-> r.stdout, stderr |-> r.stderr,
                                    exitCode |-> r.exitCode,
                                    success |-> r.exitCode = Some(0)])]
    ELSE IF r.execaError
         THEN CatchExecaError(sh, c, r)
         ELSE [c EXCEPT !.state = "rejected", !.error = Some(OtherError(c.args, r))]

\* a catch block that takes whatever the collaborator throws for a
\* structured process failure
ExecuteResume_CatchAll(sh, c, r) ==
    IF ~r.threw
    THEN [c EXCEPT !.state = "fulfilled", !.result = Some(SuccessResult(r))]
    ELSE CatchExecaError(sh, c, r)

\* execute, from the settling of the collaborator's promise to its own
ExecuteResume(sh, c, r) ==
    IF ~r.threw
    THEN [c EXCEPT !.state = "fulfilled", !.result = Some(SuccessResult(r))]
    ELSE IF r.execaError
         THEN CatchExecaError(sh, c, r)
         ELSE [c EXCEPT !.state = "rejected", !.error = Some(OtherError(c.args, r))]

\* the process ends as outcome says (kept in the execution for reference)
\* and execute resumes with what the collaborator makes of it
ExecuteSettle(sh, c, outcome) ==
    ExecuteResume(sh, [c EXCEPT !.outcome = Some(outcome)],
                  Execa(c.spawn[1], outcome))

(***************************************************************************)
(* The deferred layer: processTaggedTemplate, createLazyHandle, asFluent   *)
(***************************************************************************)
DigitChars == <<"0", "1", "2", "3", "4", "5", "6", "7", "8", "9">>

\* an interpolated value of a tagged template: a string or a one-digit number
TStr(s) == [type |-> "string", s |-> s, n |-> 0]
TNum(n) == [type |-> "number", s |-> EmptyStr, n |-> n]
\* a stringification that puts a string value between quotes
StringOf_Quoted(value) ==
    IF value.type = "string" THEN <<"'">> \o value.s \o <<"'">>
    ELSE <<DigitChars[value.n + 1]>>

\* String(value)
StringOf(value) ==
    IF value.type = "string" THEN value.s ELSE <<DigitChars[value.n + 1]>>

RECURSIVE Interleave(_, _, _, _)
\* the loop of processTaggedTemplate from index i on
Interleave(result, parts, values, i) ==
    IF i > Len(values) THEN result
    ELSE Interleave(result \o StringOf(values[i]) \o parts[i + 1], parts, values, i + 1)

\* processTaggedTemplate(parts, values)
ProcessTaggedTemplate(parts, values) == Interleave(parts[1], parts, values, 1)

\* start() calling safeRun(command) without forcing the output mode
HandleRunOptions_Default ==
    [outputMode |-> None, verbose |-> None, dryRun |-> None,
     throwOnError |-> Some(FALSE), rest |-> EmptyObject]

\* the options start() passes to safeRun, as execute receives them
HandleRunOptions ==
    [outputMode |-> Some("capture"), verbose |-> None, dryRun |-> None,
     throwOnError |-> Some(FALSE), rest |-> EmptyObject]

\* a slot that counts as empty until its promise has settled
SlotIsEmpty_Unsettled(hd) ==
    hd.executionPromise = None \/ hd.executionPromise[1].state = "pending"

\* if (executionPromise === null)
SlotIsEmpty(hd) == hd.executionPromise = None

PendingPromise == [state |-> "pending", value |-> None, error |-> None]

\* a start() that runs the command on every call
Start_NoMemo(sh, hd) ==
    LET e == ExecuteStart(sh, "safeRun", hd.command, HandleRunOptions)
    IN  [hd EXCEPT !.execution = e,
                   !.executionPromise = Some(PendingPromise),
                   !.executeCalls = @ + 1,
                   !.spawnCalls = @ + Len(e.spawn),
                   !.logCalls = @ + Len(e.log)]

\* start(): runs the command on the first call and keeps the promise
Start(sh, hd) ==
    IF SlotIsEmpty(hd)
    THEN LET e == ExecuteStart(sh, "safeRun", hd.command, HandleRunOptions)
         IN  [hd EXCEPT !.execution = e,
                        !.executionPromise = Some(PendingPromise),
                        !.executeCalls = @ + 1,
                        !.spawnCalls = @ + Len(e.spawn),
                        !.logCalls = @ + Len(e.log)]
    ELSE hd

\* a handle that starts its command when it is created
CreateLazyHandle_Eager(command, via, given) ==
    Start(shell,
          [status |-> "created", command |-> command, via |-> via, given |-> given,
           executionPromise |-> None, execution |-> NoExecution,
           observers |-> <<>>, executeCalls |-> 0, spawnCalls |-> 0, logCalls |-> 0])

\* let executionPromise = null  (and the handle object around it)
CreateLazyHandle(command, via, given) ==
    [status |-> "created", command |-> command, via |-> via, given |-> given,
     executionPromise |-> None, execution |-> NoExecution,
     observers |-> <<>>, executeCalls |-> 0, spawnCalls |-> 0, logCalls |-> 0]

\* result => ({ success, stdout: stdout ?? '', stderr: stderr ?? '', exitCode })
Normalise(result) ==
    [success  |-> result.success,
     stdout   |-> OrEmpty(result.stdout),
     stderr   |-> OrEmpty(result.stderr),
     exitCode |-> result.exitCode]

\* a start() that turns a rejection of safeRun into a failure result
Memoized_Swallow(e) ==
    IF e.state = "fulfilled"
    THEN [state |-> "fulfilled", value |-> Some(Normalise(e.result[1])), error |-> None]
    ELSE [state |-> "fulfilled", value |-> Some(Normalise(FailureResult)), error |-> None]

\* a start() whose promise stays pending when safeRun's promise is rejected
Memoized_Hang(e) ==
    IF e.state = "fulfilled"
    THEN [state |-> "fulfilled", value |-> Some(Normalise(e.result[1])), error |-> None]
    ELSE PendingPromise

\* the promise of safeRun(...).then(normalise) once safeRun's promise settled
Memoized(e) ==
    IF e.state = "fulfilled"
    THEN [state |-> "fulfilled", value |-> Some(Normalise(e.result[1])), error |-> None]
    ELSE [state |-> "rejected", value |-> None, error |-> e.error]

RECURSIVE SplitFrom_LF(_, _, _)
\* a split on \n alone, which leaves a \r at the end of a line
SplitFrom_LF(s, cur, acc) ==
    IF s = <<>> THEN Append(acc, cur)
    ELSE IF Head(s) = "\n" THEN SplitFrom_LF(Tail(s), <<>>, Append(acc, cur))
    ELSE SplitFrom_LF(Tail(s), Append(cur, Head(s)), acc)

RECURSIVE SplitFrom(_, _, _)
\* split(/\r?\n/) from the text s on, cur being the line under way
SplitFrom(s, cur, acc) ==
    IF s = <<>> THEN Append(acc, cur)
    ELSE IF Head(s) = "\n" THEN SplitFrom(Tail(s), <<>>, Append(acc, cur))
    ELSE IF Head(s) = "\r" /\ Len(s) > 1 /\ s[2] = "\n"
         THEN SplitFrom(Tail(Tail(s)), <<>>, Append(acc, cur))
         ELSE SplitFrom(Tail(s), Append(cur, Head(s)), acc)

\* stdout.split(/\r?\n/)
SplitLines(s) == SplitFrom(s, <<>>, <<>>)

\* the decoded value of the text '{}': decoded values are numbers in the
\* model, a digit decoding to itself and the empty object to this one
JsonEmptyObject == 10

\* JSON.parse(text): the model's texts decode to a number when they are one
\* digit, to the empty object when they are '{}', and to nothing (a
\* SyntaxError) otherwise
JsonParse(text) ==
    IF Len(text) = 1 /\ \E d \in 1..10 : DigitChars[d] = text[1]
    THEN Some((CHOOSE d \in 1..10 : DigitChars[d] = text[1]) - 1)
    ELSE IF text = <<"{", "}">> THEN Some(JsonEmptyObject)
    ELSE None

\* the issue a schema reports for a value it does not accept
SchemaIssue ==
    [format |-> "schema issue", command |-> <<>>, exitCode |-> <<>>, stderr |-> <<>>]

\* schema['~standard'].validate(input): a schema is the set of values it accepts
SchemaValidate(schema, input) ==
    IF input \in schema
    THEN [issues |-> None, value |-> Some(input)]
    ELSE [issues |-> Some(<<SchemaIssue>>), value |-> None]

\* new Error(`Command failed with exit code ${exitCode}: ${stderr}`)
FluentRawError(args, exitCode, stderr) ==
    [name |-> "Error",
     format |-> "Command failed with exit code ${exitCode}: ${stderr}",
     command |-> EmptyStr, exitCode |-> exitCode, stderr |-> stderr,
     cause |-> None]

\* the SyntaxError of JSON.parse
JsonError ==
    [name |-> "SyntaxError", format |-> "JSON.parse", command |-> EmptyStr,
     exitCode |-> None, stderr |-> EmptyStr, cause |-> None]

\* new Error(JSON.stringify(result.issues, null, 2))
ValidationError ==
    [name |-> "Error", format |-> "JSON.stringify(issues)", command |-> EmptyStr,
     exitCode |-> None, stderr |-> EmptyStr, cause |-> None]

Fulfilled(o, v) == [o EXCEPT !.state = "fulfilled", !.value = Some(v)]
Rejected(o, e) == [o EXCEPT !.state = "rejected", !.error = Some(e)]

\* Array.isArray(command) ? command : parseArgsStringToArgv(command)
HandleArgs(hd) == ParseArgs(hd.command)

\* a direct observation that yields stdout whether the command failed or not
ThenReaction_Lenient(sh, hd, o, p) ==
    IF p.state = "rejected" THEN Rejected(o, p.error[1])
    ELSE Fulfilled(o, p.value[1].stdout)

\* the reaction of handle.then to the settled promise of start()
ThenReaction(sh, hd, o, p) ==
    IF p.state = "rejected" THEN Rejected(o, p.error[1])
    ELSE LET r == p.value[1] IN
         IF ~r.success
         THEN IF sh.throwMode = "simple"
              THEN Rejected(o, SimpleError(HandleArgs(hd), r.exitCode, r.stderr))
              ELSE Rejected(o, FluentRawError(HandleArgs(hd), r.exitCode, r.stderr))
         ELSE Fulfilled(o, r.stdout)

\* a result() that raises on a failed execution, as direct observation does
ResultReaction_Throwing(sh, hd, o, p) ==
    IF p.state = "rejected" THEN Rejected(o, p.error[1])
    ELSE IF ~p.value[1].success
         THEN Rejected(o, SimpleError(HandleArgs(hd), p.value[1].exitCode,
                                      p.value[1].stderr))
         ELSE Fulfilled(o, p.value[1])

\* handle.result = () => start()
ResultReaction(sh, hd, o, p) ==
    IF p.state = "rejected" THEN Rejected(o, p.error[1])
    ELSE Fulfilled(o, p.value[1])

\* a toLines that splits stderr
ToLinesReaction_Stderr(sh, hd, o, p) ==
    IF p.state = "rejected" THEN Rejected(o, p.error[1])
    ELSE LET r == p.value[1] IN
         IF ~r.success
         THEN Rejected(o, SimpleError(HandleArgs(hd), r.exitCode, r.stderr))
         ELSE IF r.stderr = EmptyStr THEN Fulfilled(o, <<>>)
         ELSE Fulfilled(o, SplitLines(r.stderr))

\* the reaction of handle.toLines
ToLinesReaction(sh, hd, o, p) ==
    IF p.state = "rejected" THEN Rejected(o, p.error[1])
    ELSE LET r == p.value[1] IN
         IF ~r.success
         THEN Rejected(o, SimpleError(HandleArgs(hd), r.exitCode, r.stderr))
         ELSE IF r.stdout = EmptyStr THEN Fulfilled(o, <<>>)
         ELSE Fulfilled(o, SplitLines(r.stdout))

\* a parse that returns the decoded value without asking the schema
ParseReaction_Unvalidated(sh, hd, o, p) ==
    IF p.state = "rejected" THEN Rejected(o, p.error[1])
    ELSE LET r == p.value[1] IN
         IF ~r.success
         THEN Rejected(o, SimpleError(HandleArgs(hd), r.exitCode, r.stderr))
         ELSE LET parsed == JsonParse(r.stdout) IN
              IF parsed = None THEN Rejected(o, JsonError)
              ELSE Fulfilled(o, parsed[1])

\* a parse that resolves with the execution result when the command failed
ParseReaction_FailureValue(sh, hd, o, p) ==
    IF p.state = "rejected" THEN Rejected(o, p.error[1])
    ELSE LET r == p.value[1] IN
         IF ~r.success
         THEN Fulfilled(o, r)
         ELSE LET parsed == JsonParse(r.stdout) IN
              IF parsed = None THEN Rejected(o, JsonError)
              ELSE LET v == SchemaValidate(o.schema, parsed[1]) IN
                   IF v.issues # None THEN Rejected(o, ValidationError)
                   ELSE Fulfilled(o, v.value[1])

\* the reaction of handle.parse(schema), standardValidate included
ParseReaction(sh, hd, o, p) ==
    IF p.state = "rejected" THEN Rejected(o, p.error[1])
    ELSE LET r == p.value[1] IN
         IF ~r.success
         THEN Rejected(o, SimpleError(HandleArgs(hd), r.exitCode, r.stderr))
         ELSE LET parsed == JsonParse(r.stdout) IN
              IF parsed = None THEN Rejected(o, JsonError)
              ELSE LET v == SchemaValidate(o.schema, parsed[1]) IN
                   IF v.issues # None THEN Rejected(o, ValidationError)
                   ELSE Fulfilled(o, v.value[1])

\* one message of a safeParse failure value: the template and what it
\* interpolates
Issue(format, command, exitCode, stderr) ==
    [format |-> format, command |-> command, exitCode |-> exitCode,
     stderr |-> stderr]

\* { message: `Command failed: ${commandStr}\nExit code: ...\n${result.stderr}` }
CommandFailedIssue(hd, r) ==
    Issue("Command failed: ${commandStr}\nExit code: ${exitCode}\n${stderr}",
          Join(HandleArgs(hd)), r.exitCode, r.stderr)

\* { message: `The command produced no output to validate: ${commandStr}` }
NoOutputIssue(hd) ==
    Issue("The command produced no output to validate: ${commandStr}",
          Join(HandleArgs(hd)), None, EmptyStr)

\* { message: `Unable to parse JSON: ${e.message}\nCommand: ${commandStr}` }
JsonIssue(hd) ==
    Issue("Unable to parse JSON: ${e.message}\nCommand: ${commandStr}",
          Join(HandleArgs(hd)), None, EmptyStr)

\* { success: false, error: issues }
ValidationFailure(issues) == [success |-> FALSE, error |-> issues]

\* { success: true, data }
ValidationSuccess(data) == [success |-> TRUE, data |-> data]

\* a safeParse that tries to decode stdout before it looks whether it is empty
SafeParseReaction_DecodeFirst(sh, hd, o, p) ==
    IF p.state = "rejected" THEN Rejected(o, p.error[1])
    ELSE LET r == p.value[1] IN
         IF ~r.success
         THEN Fulfilled(o, ValidationFailure(<<CommandFailedIssue(hd, r)>>))
         ELSE LET parsed == JsonParse(r.stdout) IN
              IF parsed = None
              THEN Fulfilled(o, ValidationFailure(<<JsonIssue(hd)>>))
              ELSE LET v == SchemaValidate(o.schema, parsed[1]) IN
                   IF v.issues # None
                   THEN Fulfilled(o, ValidationFailure(v.issues[1]))
                   ELSE Fulfilled(o, ValidationSuccess(v.value[1]))

\* the reaction of handle.safeParse(schema), standardSafeValidate included
SafeParseReaction(sh, hd, o, p) ==
    IF p.state = "rejected" THEN Rejected(o, p.error[1])
    ELSE LET r == p.value[1] IN
         IF ~r.success
         THEN Fulfilled(o, ValidationFailure(<<CommandFailedIssue(hd, r)>>))
         ELSE IF r.stdout = EmptyStr
         THEN Fulfilled(o, ValidationFailure(<<NoOutputIssue(hd)>>))
         ELSE LET parsed == JsonParse(r.stdout) IN
              IF parsed = None
              THEN Fulfilled(o, ValidationFailure(<<JsonIssue(hd)>>))
              ELSE LET v == SchemaValidate(o.schema, parsed[1]) IN
                   IF v.issues # None
                   THEN Fulfilled(o, ValidationFailure(v.issues[1]))
                   ELSE Fulfilled(o, ValidationSuccess(v.value[1]))

Finalizers == {"then", "result", "toLines", "parse", "safeParse"}

\* the reaction a finalizer attached to the promise of start()
Reaction(sh, hd, o, p) ==
    CASE o.kind = "then"      -> ThenReaction(sh, hd, o, p)
      [] o.kind = "result"    -> ResultReaction(sh, hd, o, p)
      [] o.kind = "toLines"   -> ToLinesReaction(sh, hd, o, p)
      [] o.kind = "parse"     -> ParseReaction(sh, hd, o, p)
      [] o.kind = "safeParse" -> SafeParseReaction(sh, hd, o, p)

(***************************************************************************)
(* runParse(cmd, schema, options)                                          *)
(***************************************************************************)
\* runParse up to its await of run(cmd, options): the execution run starts,
\* with the schema and the promise runParse returns
RunParseStart(sh, cmd, schema, options) ==
    ExecuteStart(sh, "runParse", cmd, [options EXCEPT !.throwOnError = Some(TRUE)])
        @@ [schema |-> schema, returned |-> PendingPromise, validationLog |-> <<>>]

\* this.logger.debug('Validation Output:' + verboseOutput, logContext)
ValidationLogLine(c, result) ==
    [message |-> "Validation Output:\nStdout: ${stdout}\nStderr: ${stderr}",
     stdout |-> result.stdout, stderr |-> result.stderr,
     context |-> [command |-> c.cmd, execaOptions |-> c.options.rest]]

\* runParse after its await of run(cmd, options): a rejection of run is the
\* rejection of runParse; otherwise the validation log line when verbose and
\* standardValidate(schema, JSON.parse(result.stdout ?? '{}'))
RunParseResume(sh, c) ==
    IF c.state = "rejected"
    THEN [c EXCEPT !.returned = [state |-> "rejected", value |-> None, error |-> c.error]]
    ELSE
      LET result == c.result[1]
          text   == IF result.stdout = None THEN <<"{", "}">> ELSE result.stdout[1]
          parsed == JsonParse(text)
          logged == [c EXCEPT !.validationLog =
                        IF EffVerbose(c.options, sh)
                        THEN <<ValidationLogLine(c, result)>> ELSE <<>>]
      IN  IF parsed = None
          THEN [logged EXCEPT !.returned =
                   [state |-> "rejected", value |-> None, error |-> Some(JsonError)]]
          ELSE LET v == SchemaValidate(c.schema, parsed[1]) IN
               IF v.issues # None
               THEN [logged EXCEPT !.returned =
                        [state |-> "rejected", value |-> None,
                         error |-> Some(ValidationError)]]
               ELSE [logged EXCEPT !.returned =
                        [state |-> "fulfilled", value |-> v.value, error |-> None]]

(***************************************************************************)
(* Inputs                                                                  *)
(***************************************************************************)
\* the largest number of finalizer calls followed on one handle
MaxObservers == 2
\* the number of executions of one handle after which the model stops
\* following further ones (the code never reaches it)
MaxExecutions == 2

\* the number of eager calls a caller is followed through before the model
\* stops recording further ones
MaxCalls == 2

\* ''  'a b'  []  ['a', 'b']
Commands ==
    { StrCmd(EmptyStr), StrCmd(<<"a", SP, "b">>),
      ArgvCmd(<<>>), ArgvCmd(<< <<"a">>, <<"b">> >>) }

\* $``   $`a b`   $`a ${'b'}`   $`a ${7}`
Templates ==
    { [parts |-> <<EmptyStr>>, values |-> <<>>],
      [parts |-> << <<"a", SP, "b">> >>, values |-> <<>>],
      [parts |-> << <<"a", SP>>, EmptyStr >>, values |-> <<TStr(<<"b">>)>>],
      [parts |-> << <<"a", SP>>, EmptyStr >>, values |-> <<TNum(7)>>] }

\* new Shell(options) with every field given and no process options
FullShellOptions ==
    [outputMode : {Some(m) : m \in OutputModes},
     dryRun : {Some(b) : b \in BOOLEAN},
     verbose : {Some(b) : b \in BOOLEAN},
     throwMode : {Some(m) : m \in ThrowModes},
     execaOptions : {None}]

\* new Shell(options) with any of the fields left out and no process options
ShellOptions ==
    [outputMode : OptSet(OutputModes), dryRun : OptSet(BOOLEAN),
     verbose : OptSet(BOOLEAN), throwMode : OptSet(ThrowModes),
     execaOptions : {None}]

\* a call without options
NoOptions ==
    [outputMode |-> None, verbose |-> None, dryRun |-> None,
     throwOnError |-> None, rest |-> EmptyObject]

\* execute(cmd), execute(cmd, { throwOnError: true | false })
ThrowOptions == {[NoOptions EXCEPT !.throwOnError = t] : t \in OptSet(BOOLEAN)}

\* RunOptions without process options, as run and safeRun take them
RunOptions ==
    [outputMode : OptSet(OutputModes), verbose : OptSet(BOOLEAN),
     dryRun : OptSet(BOOLEAN), throwOnError : {None}, rest : {EmptyObject}]

\* RunOptions & { throwOnError?: boolean }, as execute takes them
ExecuteOptions ==
    [outputMode : OptSet(OutputModes), verbose : OptSet(BOOLEAN),
     dryRun : OptSet(BOOLEAN), throwOnError : OptSet(BOOLEAN),
     rest : {EmptyObject}]

\* env objects over the variables A and B, every variable set to value
EnvObjects(value) ==
    { [k \in keys |-> value] : keys \in SUBSET {"A", "B"} }

\* process options: env left out or one of the env objects, timeout left out
\* or set
ExecaObjects(value, timeout) ==
    { EmptyObject, [timeout |-> Scalar(timeout)] }
    \cup { [env |-> Obj(e)] : e \in EnvObjects(value) }
    \cup { [env |-> Obj(e), timeout |-> Scalar(timeout)] : e \in EnvObjects(value) }

\* shell-level execaOptions
InstanceExeca == ExecaObjects("1", 5000)

\* call-level process options: those of the kind above, and reject: true
CallExeca == ExecaObjects("2", 9000) \cup { [reject |-> Scalar(TRUE)] }

\* new Shell({ execaOptions })
MergeShellOptions ==
    [outputMode : {None}, dryRun : {None}, verbose : {None}, throwMode : {None},
     execaOptions : OptSet(InstanceExeca)]

\* call options that hold process options only
MergeOptions == {[NoOptions EXCEPT !.rest = r] : r \in CallExeca}

\* the second argument a caller may hand to $(command, options): its outputMode
GivenModes == OptSet(OutputModes)

ExitCodes == {0, 5}
\* ''  'o' (no JSON)  '7'  '8'
OutTexts == { EmptyStr, <<"o">>, <<"7">>, <<"8">> }
ErrTexts == { EmptyStr, <<"e">> }
\* a schema is the set of the decoded values it accepts
Schemas == { {7} }
NoSchema == {}

\* how a spawned process can end
Outcomes ==
    [kind : {"exit"}, code : {Some(n) : n \in ExitCodes},
     out : OutTexts, err : ErrTexts]
    \cup {[kind |-> "nostart", code |-> None, out |-> EmptyStr, err |-> EmptyStr],
          [kind |-> "crash", code |-> None, out |-> EmptyStr, err |-> EmptyStr]}

(***************************************************************************)
(* The state machine                                                       *)
(***************************************************************************)
HandleIds == {1}
NoHandle == [status |-> "absent"]

\* new Shell(options)
Construct(o) ==
    /\ config = o
    /\ shell = Constructor(o)

Init ==
    /\ \E o \in FullShellOptions : Construct(o)
    /\ call = NoExecution
    /\ fluent = "none"
    /\ handle = [h \in HandleIds |-> NoHandle]
    /\ calls = <<>>

\* One scenario follows one eager call or the deferred API: the two share
\* nothing but the instance's fields, which no method assigns.
EagerIdle == call.state = "none" /\ fluent = "none"

\* an execute that keeps the options it resolved for the call in the instance
Execute_Sticky(cmd, options) ==
    /\ EagerIdle
    /\ call' = ExecuteStart(shell, "execute", cmd, options)
    /\ shell' = [shell EXCEPT !.outputMode = EffOutputMode(options, shell),
                              !.verbose = EffVerbose(options, shell),
                              !.dryRun = EffDryRun(options, shell),
                              !.execaOptions = DeepMerge(shell.execaOptions, options.rest)]
    /\ UNCHANGED <<config, fluent, handle, calls>>

\* shell.execute(cmd, options)
Execute(cmd, options) ==
    /\ EagerIdle
    /\ call' = ExecuteStart(shell, "execute", cmd, options)
    /\ UNCHANGED <<config, shell, fluent, handle, calls>>

\* a run that answers from an earlier run of the same command instead of
\* executing it again
Run_Memoized(cmd, options) ==
    /\ EagerIdle
    /\ LET earlier == { i \in 1..Len(calls) : calls[i].cmd = cmd }
           fresh == ExecuteStart(shell, "run", cmd,
                                 [options EXCEPT !.throwOnError = Some(TRUE)])
       IN  call' = IF earlier = {} THEN fresh
                   ELSE LET e == calls[CHOOSE i \in earlier : TRUE]
                        IN  [fresh EXCEPT !.state = e.state, !.spawn = <<>>,
                                          !.outcome = e.outcome,
                                          !.result = e.result, !.error = e.error]
    /\ UNCHANGED <<config, shell, fluent, handle, calls>>

\* shell.run(cmd, options) : execute(cmd, { ...options, throwOnError: true })
Run(cmd, options) ==
    /\ EagerIdle
    /\ call' = ExecuteStart(shell, "run", cmd,
                            [options EXCEPT !.throwOnError = Some(TRUE)])
    /\ UNCHANGED <<config, shell, fluent, handle, calls>>

\* shell.safeRun(cmd, options) : execute(cmd, { ...options, throwOnError: false })
SafeRun(cmd, options) ==
    /\ EagerIdle
    /\ call' = ExecuteStart(shell, "safeRun", cmd,
                            [options EXCEPT !.throwOnError = Some(FALSE)])
    /\ UNCHANGED <<config, shell, fluent, handle, calls>>

\* the process of the eager call ends and execute resumes after its await
CallSettles(outcome) ==
    /\ call.state = "awaiting"
    /\ call' = ExecuteSettle(shell, call, outcome)
    /\ UNCHANGED <<config, shell, fluent, handle, calls>>

\* shell.runParse(cmd, schema, options)
RunParse(cmd, schema, options) ==
    /\ EagerIdle
    /\ call' = RunParseStart(shell, cmd, schema, options)
    /\ UNCHANGED <<config, shell, fluent, handle, calls>>

\* the promise of run has settled and runParse resumes after its await
RunParseResumes ==
    /\ call.state \in {"fulfilled", "rejected"}
    /\ call.api = "runParse"
    /\ call.returned.state = "pending"
    /\ call' = RunParseResume(shell, call)
    /\ UNCHANGED <<config, shell, fluent, handle, calls>>

\* the caller's await of the promise of the eager call is over: the caller
\* has the result or the error in hand and may call again
Return ==
    /\ call.state \in {"fulfilled", "rejected"}
    /\ call.api = "runParse" => call.returned.state # "pending"
    /\ Len(calls) < MaxCalls
    /\ calls' = Append(calls, call)
    /\ call' = NoExecution
    /\ UNCHANGED <<config, shell, fluent, handle>>

\* shell.asFluent(): returns the $ function
AsFluent ==
    /\ fluent = "none"
    /\ call.state = "none"
    /\ fluent' = "function"
    /\ UNCHANGED <<config, shell, call, handle, calls>>

\* $(command) or $(command, options): the function-call branch of $, which
\* reads its first argument only
DollarCall(h, command, given) ==
    /\ fluent = "function"
    /\ handle[h].status = "absent"
    /\ handle' = [handle EXCEPT ![h] = CreateLazyHandle(command, "call", given)]
    /\ UNCHANGED <<config, shell, call, fluent, calls>>

\* $`...`: the tagged-template branch of $
DollarTemplate(h, t) ==
    /\ fluent = "function"
    /\ handle[h].status = "absent"
    /\ handle' = [handle EXCEPT ![h] =
           CreateLazyHandle(StrCmd(ProcessTaggedTemplate(t.parts, t.values)),
                            "template", None)]
    /\ UNCHANGED <<config, shell, call, fluent, calls>>

NewObserver(kind, schema) ==
    [kind |-> kind, schema |-> schema, state |-> "pending",
     value |-> None, error |-> None]

\* a finalizer that takes over the execution of another handle made for the
\* same command, as if the memoized promise were kept per command
Observe_Shared(h, kind, schema) ==
    /\ handle[h].status = "created"
    /\ Len(handle[h].observers) < MaxObservers
    /\ SlotIsEmpty(handle[h]) => handle[h].executeCalls < MaxExecutions
    /\ LET others == { g \in DOMAIN handle :
                           /\ g # h
                           /\ handle[g].status = "created"
                           /\ handle[g].command = handle[h].command
                           /\ ~SlotIsEmpty(handle[g]) }
           started == IF SlotIsEmpty(handle[h]) /\ others # {}
                      THEN LET g == CHOOSE x \in others : TRUE
                           IN  [handle[h] EXCEPT
                                   !.executionPromise = handle[g].executionPromise,
                                   !.execution = handle[g].execution]
                      ELSE Start(shell, handle[h])
       IN  handle' = [handle EXCEPT ![h] =
               [started EXCEPT !.observers = Append(@, NewObserver(kind, schema))]]
    /\ UNCHANGED <<config, shell, call, fluent, calls>>

\* a finalizer is called on the handle: it calls start() and attaches its
\* reaction to the promise start() returns
Observe(h, kind, schema) ==
    /\ handle[h].status = "created"
    /\ Len(handle[h].observers) < MaxObservers
    /\ SlotIsEmpty(handle[h]) => handle[h].executeCalls < MaxExecutions
    /\ handle' = [handle EXCEPT ![h] =
           [Start(shell, handle[h]) EXCEPT
               !.observers = Append(@, NewObserver(kind, schema))]]
    /\ UNCHANGED <<config, shell, call, fluent, calls>>

\* await handle
ObserveThen(h) == Observe(h, "then", NoSchema)
\* handle.result()
ObserveResult(h) == Observe(h, "result", NoSchema)
\* handle.toLines()
ObserveToLines(h) == Observe(h, "toLines", NoSchema)
\* handle.parse(schema)
ObserveParse(h, schema) == Observe(h, "parse", schema)
\* handle.safeParse(schema)
ObserveSafeParse(h, schema) == Observe(h, "safeParse", schema)

\* the process of the handle's execution ends and execute resumes
HandleSettles(h, outcome) ==
    /\ handle[h].status = "created"
    /\ handle[h].execution.state = "awaiting"
    /\ handle' = [handle EXCEPT ![h].execution =
           ExecuteSettle(shell, @, outcome)]
    /\ UNCHANGED <<config, shell, call, fluent, calls>>

\* the reaction start() attached to safeRun's promise runs: the memoized
\* promise settles
Memoize(h) ==
    /\ handle[h].status = "created"
    /\ handle[h].executionPromise = Some(PendingPromise)
    /\ handle[h].execution.state \in {"fulfilled", "rejected"}
    /\ handle' = [handle EXCEPT ![h].executionPromise =
           Some(Memoized(handle[h].execution))]
    /\ UNCHANGED <<config, shell, call, fluent, calls>>

\* the reaction of one finalizer call runs: that call settles
React(h, i) ==
    /\ handle[h].status = "created"
    /\ i \in 1..Len(handle[h].observers)
    /\ handle[h].observers[i].state = "pending"
    /\ handle[h].executionPromise # None
    /\ handle[h].executionPromise[1].state # "pending"
    /\ handle' = [handle EXCEPT ![h].observers[i] =
           Reaction(shell, handle[h], @, handle[h].executionPromise[1])]
    /\ UNCHANGED <<config, shell, call, fluent, calls>>

Next ==
    \/ \E cmd \in Commands, options \in ThrowOptions : Execute(cmd, options)
    \/ \E cmd \in Commands : Run(cmd, NoOptions)
    \/ \E cmd \in Commands : SafeRun(cmd, NoOptions)
    \/ \E outcome \in Outcomes : CallSettles(outcome)
    \/ AsFluent
    \/ \E h \in HandleIds, cmd \in Commands, given \in GivenModes :
          DollarCall(h, cmd, given)
    \/ \E h \in HandleIds, t \in Templates : DollarTemplate(h, t)
    \/ \E h \in HandleIds : ObserveThen(h)
    \/ \E h \in HandleIds : ObserveResult(h)
    \/ \E h \in HandleIds : ObserveToLines(h)
    \/ \E h \in HandleIds, schema \in Schemas : ObserveParse(h, schema)
    \/ \E h \in HandleIds, schema \in Schemas : ObserveSafeParse(h, schema)
    \/ \E h \in HandleIds, outcome \in Outcomes : HandleSettles(h, outcome)
    \/ \E h \in HandleIds : Memoize(h)
    \/ \E h \in HandleIds, i \in 1..MaxObservers : React(h, i)

Spec == Init /\ [][Next]_vars

(***************************************************************************)
(* The eager API with every combination of instance and call overrides     *)
(***************************************************************************)
EagerInit ==
    /\ \E o \in ShellOptions : Construct(o)
    /\ call = NoExecution
    /\ fluent = "none"
    /\ handle = [h \in HandleIds |-> NoHandle]
    /\ calls = <<>>

EagerNext ==
    \/ \E cmd \in Commands, options \in ExecuteOptions : Execute(cmd, options)
    \/ \E cmd \in Commands, options \in RunOptions : Run(cmd, options)
    \/ \E cmd \in Commands, options \in RunOptions : SafeRun(cmd, options)
    \/ \E outcome \in Outcomes : CallSettles(outcome)

EagerSpec == EagerInit /\ [][EagerNext]_vars

(***************************************************************************)
(* The eager API with instance-level and call-level process options        *)
(***************************************************************************)
MergeInit ==
    /\ \E o \in MergeShellOptions : Construct(o)
    /\ call = NoExecution
    /\ fluent = "none"
    /\ handle = [h \in HandleIds |-> NoHandle]
    /\ calls = <<>>

MergeNext ==
    \/ \E cmd \in Commands, options \in MergeOptions : Execute(cmd, options)
    \/ \E cmd \in Commands, options \in MergeOptions : Run(cmd, options)
    \/ \E cmd \in Commands, options \in MergeOptions : SafeRun(cmd, options)
    \/ \E outcome \in Outcomes : CallSettles(outcome)

MergeSpec == MergeInit /\ [][MergeNext]_vars

(***************************************************************************)
(* The deferred API on multi-line output and on tagged templates           *)
(***************************************************************************)
\* new Shell() : no option given
DefaultShellOptions ==
    [outputMode |-> None, dryRun |-> None, verbose |-> None, throwMode |-> None,
     execaOptions |-> None]

\* ''  'a'  'a\nb'  'a\r\nb'  'a\nb\r\nc'  'a\n'  'a\rb'  'a\r\r\nb'
LineTexts ==
    { EmptyStr, <<"a">>, <<"a", "\n", "b">>, <<"a", "\r", "\n", "b">>,
      <<"a", "\n", "b", "\r", "\n", "c">>, <<"a", "\n">>, <<"a", "\r", "b">>,
      <<"a", "\r", "\r", "\n", "b">> }

\* a process that wrote one of the texts to stdout and exited
LineOutcomes ==
    [kind : {"exit"}, code : {Some(n) : n \in ExitCodes},
     out : LineTexts, err : {EmptyStr}]

\* $`a b`  $`a ${'b'}`  $`a ${7}`  $`a ${'b c'}`  $`${'a'} ${'b'}`  $`a${7}b ${'c'}`
FluentTemplates ==
    { [parts |-> << <<"a", SP, "b">> >>, values |-> <<>>],
      [parts |-> << <<"a", SP>>, EmptyStr >>, values |-> <<TStr(<<"b">>)>>],
      [parts |-> << <<"a", SP>>, EmptyStr >>, values |-> <<TNum(7)>>],
      [parts |-> << <<"a", SP>>, EmptyStr >>, values |-> <<TStr(<<"b", SP, "c">>)>>],
      [parts |-> << EmptyStr, <<SP>>, EmptyStr >>,
       values |-> <<TStr(<<"a">>), TStr(<<"b">>)>>],
      [parts |-> << <<"a">>, <<"b", SP>>, EmptyStr >>,
       values |-> <<TNum(7), TStr(<<"c">>)>>] }

\* $('a b')  $('a 7')  $('a b c')  $('a7b c')
FluentStrings ==
    { StrCmd(<<"a", SP, "b">>), StrCmd(<<"a", SP, "7">>),
      StrCmd(<<"a", SP, "b", SP, "c">>), StrCmd(<<"a", "7", "b", SP, "c">>) }

FluentInit ==
    /\ Construct(DefaultShellOptions)
    /\ call = NoExecution
    /\ fluent = "none"
    /\ handle = [h \in HandleIds |-> NoHandle]
    /\ calls = <<>>

FluentNext ==
    \/ AsFluent
    \/ \E h \in HandleIds, cmd \in FluentStrings : DollarCall(h, cmd, None)
    \/ \E h \in HandleIds, t \in FluentTemplates : DollarTemplate(h, t)
    \/ \E h \in HandleIds : ObserveThen(h)
    \/ \E h \in HandleIds : ObserveResult(h)
    \/ \E h \in HandleIds : ObserveToLines(h)
    \/ \E h \in HandleIds, outcome \in LineOutcomes : HandleSettles(h, outcome)
    \/ \E h \in HandleIds : Memoize(h)
    \/ \E h \in HandleIds, i \in 1..MaxObservers : React(h, i)

FluentSpec == FluentInit /\ [][FluentNext]_vars

(***************************************************************************)
(* The eager API with output modes, throw flags and process options that   *)
(* name the keys execute sets itself                                       *)
(***************************************************************************)

\* new Shell({ outputMode?, execaOptions?: { reject: false } })
WireShellOptions ==
    [outputMode : OptSet(OutputModes), dryRun : {None}, verbose : {None},
     throwMode : {None},
     execaOptions : {None, Some([reject |-> Scalar(FALSE)])}]

\* { outputMode?, dryRun?, throwOnError? } with no process option, with
\* reject: true or with stdout: 'inherit'
WireOptions ==
    [outputMode : OptSet(OutputModes), verbose : {None},
     dryRun : {None, Some(TRUE)}, throwOnError : OptSet(BOOLEAN),
     rest : {EmptyObject, [reject |-> Scalar(TRUE)],
             [stdout |-> Scalar({"inherit"})]}]

\* the options above as run and safeRun take them
WireRunOptions == { o \in WireOptions : o.throwOnError = None }

\* 'a b'
WireCommand == StrCmd(<<"a", SP, "b">>)

\* exit 0 with stdout 'o', exit 5 with stderr 'e'
WireOutcomes ==
    { [kind |-> "exit", code |-> Some(0), out |-> <<"o">>, err |-> EmptyStr],
      [kind |-> "exit", code |-> Some(5), out |-> EmptyStr, err |-> <<"e">>] }

WireInit ==
    /\ \E o \in WireShellOptions : Construct(o)
    /\ call = NoExecution
    /\ fluent = "none"
    /\ handle = [h \in HandleIds |-> NoHandle]
    /\ calls = <<>>

WireNext ==
    \/ \E options \in WireOptions : Execute(WireCommand, options)
    \/ \E options \in WireRunOptions : Run(WireCommand, options)
    \/ \E options \in WireRunOptions : SafeRun(WireCommand, options)
    \/ \E outcome \in WireOutcomes : CallSettles(outcome)

WireSpec == WireInit /\ [][WireNext]_vars

(***************************************************************************)
(* One eager call after the other on the same instance                     *)
(***************************************************************************)

\* new Shell()  and
\* new Shell({ outputMode: 'live', verbose: true, throwMode: 'raw',
\*             execaOptions: { env: { A: '1' } } })
SeqShellOptions ==
    { DefaultShellOptions,
      [outputMode |-> Some("live"), dryRun |-> None, verbose |-> Some(TRUE),
       throwMode |-> Some("raw"),
       execaOptions |-> Some([env |-> Obj([k \in {"A"} |-> "1"])])] }

\* {}   { outputMode: 'all', verbose: false, env: { A: '2', B: '2' } }
\* { dryRun: true }
SeqOptions ==
    { NoOptions,
      [NoOptions EXCEPT !.outputMode = Some("all"), !.verbose = Some(FALSE),
                        !.rest = [env |-> Obj([k \in {"A", "B"} |-> "2"])]],
      [NoOptions EXCEPT !.dryRun = Some(TRUE)] }

\* ''  'a b'
SeqCommands == { StrCmd(EmptyStr), StrCmd(<<"a", SP, "b">>) }

\* exit 0 with stdout 'o', exit 5 with stderr 'e'
SeqOutcomes ==
    { [kind |-> "exit", code |-> Some(0), out |-> <<"o">>, err |-> EmptyStr],
      [kind |-> "exit", code |-> Some(5), out |-> EmptyStr, err |-> <<"e">>] }

SeqInit ==
    /\ \E o \in SeqShellOptions : Construct(o)
    /\ call = NoExecution
    /\ fluent = "none"
    /\ handle = [h \in HandleIds |-> NoHandle]
    /\ calls = <<>>

SeqNext ==
    \/ \E cmd \in SeqCommands, options \in SeqOptions : Execute(cmd, options)
    \/ \E options \in SeqOptions : Run(StrCmd(<<"a", SP, "b">>), options)
    \/ \E options \in SeqOptions : SafeRun(StrCmd(<<"a", SP, "b">>), options)
    \/ \E outcome \in SeqOutcomes : CallSettles(outcome)
    \/ Return

SeqSpec == SeqInit /\ [][SeqNext]_vars

(***************************************************************************)
(* run() and, after it, a handle for the same command on one instance      *)
(***************************************************************************)

\* new Shell({ outputMode?, throwMode? })
MirrorShellOptions ==
    [outputMode : OptSet(OutputModes), dryRun : {None}, verbose : {None},
     throwMode : OptSet(ThrowModes), execaOptions : {None}]

\* 'a b'  ['a', 'b']
MirrorCommands == { StrCmd(<<"a", SP, "b">>), ArgvCmd(<< <<"a">>, <<"b">> >>) }

\* exit 0 with stdout 'o', exit 5 with stderr 'e', exit 5 with no output,
\* a process that never started
MirrorOutcomes ==
    { [kind |-> "exit", code |-> Some(0), out |-> <<"o">>, err |-> EmptyStr],
      [kind |-> "exit", code |-> Some(5), out |-> EmptyStr, err |-> <<"e">>],
      [kind |-> "exit", code |-> Some(5), out |-> EmptyStr, err |-> EmptyStr],
      [kind |-> "nostart", code |-> None, out |-> EmptyStr, err |-> EmptyStr] }

MirrorInit ==
    /\ \E o \in MirrorShellOptions : Construct(o)
    /\ call = NoExecution
    /\ fluent = "none"
    /\ handle = [h \in HandleIds |-> NoHandle]
    /\ calls = <<>>

MirrorNext ==
    \/ \E cmd \in MirrorCommands : Run(cmd, NoOptions)
    \/ \E outcome \in MirrorOutcomes : CallSettles(outcome)
    \/ Return
    \/ AsFluent
    \/ \E h \in HandleIds, cmd \in MirrorCommands : DollarCall(h, cmd, None)
    \/ \E h \in HandleIds : ObserveThen(h)
    \/ \E h \in HandleIds, outcome \in MirrorOutcomes : HandleSettles(h, outcome)
    \/ \E h \in HandleIds : Memoize(h)
    \/ \E h \in HandleIds, i \in 1..MaxObservers : React(h, i)

MirrorSpec == MirrorInit /\ [][MirrorNext]_vars

(***************************************************************************)
(* runParse() and, after it, parse() on a handle for the same command      *)
(***************************************************************************)

\* new Shell({ verbose? })
ParseShellOptions ==
    [outputMode : {None}, dryRun : {None}, verbose : {None, Some(TRUE)},
     throwMode : {None}, execaOptions : {None}]

\* a schema that accepts 7 alone, and one that accepts the empty object alone
ParseSchemas == { {7}, {JsonEmptyObject} }

\* exit 0 with stdout '', 'o' (no JSON), '7', '8' or '{}'; exit 5 with
\* stdout '7' and stderr 'e'
ParseOutcomes ==
    [kind : {"exit"}, code : {Some(0)},
     out : {EmptyStr, <<"o">>, <<"7">>, <<"8">>, <<"{", "}">>}, err : {EmptyStr}]
    \cup { [kind |-> "exit", code |-> Some(5), out |-> <<"7">>, err |-> <<"e">>] }

\* 'a b'
ParseCommand == StrCmd(<<"a", SP, "b">>)

ParseInit ==
    /\ \E o \in ParseShellOptions : Construct(o)
    /\ call = NoExecution
    /\ fluent = "none"
    /\ handle = [h \in HandleIds |-> NoHandle]
    /\ calls = <<>>

ParseNext ==
    \/ \E schema \in ParseSchemas : RunParse(ParseCommand, schema, NoOptions)
    \/ \E outcome \in ParseOutcomes : CallSettles(outcome)
    \/ RunParseResumes
    \/ Return
    \/ AsFluent
    \/ \E h \in HandleIds : DollarCall(h, ParseCommand, None)
    \/ \E h \in HandleIds, schema \in ParseSchemas : ObserveParse(h, schema)
    \/ \E h \in HandleIds, outcome \in ParseOutcomes : HandleSettles(h, outcome)
    \/ \E h \in HandleIds : Memoize(h)
    \/ \E h \in HandleIds, i \in 1..MaxObservers : React(h, i)

ParseSpec == ParseInit /\ [][ParseNext]_vars

(***************************************************************************)
(* The deferred API under the scheduling the platform guarantees: a        *)
(* promise reaction runs once its promise has settled, and the spawn       *)
(* collaborator is taken to complete every spawn attempt                   *)
(***************************************************************************)

\* new Shell()  and  new Shell({ dryRun: true })
LiveShellOptions ==
    { DefaultShellOptions, [DefaultShellOptions EXCEPT !.dryRun = Some(TRUE)] }

\* ''  'a b'
LiveCommands == { StrCmd(EmptyStr), StrCmd(<<"a", SP, "b">>) }

\* exit 0 with stdout '7', exit 5 with stderr 'e', a process that never
\* started, an error of the collaborator
LiveOutcomes ==
    { [kind |-> "exit", code |-> Some(0), out |-> <<"7">>, err |-> EmptyStr],
      [kind |-> "exit", code |-> Some(5), out |-> EmptyStr, err |-> <<"e">>],
      [kind |-> "nostart", code |-> None, out |-> EmptyStr, err |-> EmptyStr],
      [kind |-> "crash", code |-> None, out |-> EmptyStr, err |-> EmptyStr] }

LiveInit ==
    /\ \E o \in LiveShellOptions : Construct(o)
    /\ call = NoExecution
    /\ fluent = "none"
    /\ handle = [h \in HandleIds |-> NoHandle]
    /\ calls = <<>>

LiveNext ==
    \/ AsFluent
    \/ \E h \in HandleIds, cmd \in LiveCommands : DollarCall(h, cmd, None)
    \/ \E h \in HandleIds : ObserveThen(h)
    \/ \E h \in HandleIds : ObserveResult(h)
    \/ \E h \in HandleIds : ObserveToLines(h)
    \/ \E h \in HandleIds, schema \in Schemas : ObserveParse(h, schema)
    \/ \E h \in HandleIds, schema \in Schemas : ObserveSafeParse(h, schema)
    \/ \E h \in HandleIds, outcome \in LiveOutcomes : HandleSettles(h, outcome)
    \/ \E h \in HandleIds : Memoize(h)
    \/ \E h \in HandleIds, i \in 1..MaxObservers : React(h, i)

\* the collaborator completes the spawn attempt of every handle, and the
\* reactions attached to a settled promise run
LiveFairness ==
    \A h \in HandleIds :
        /\ WF_vars(\E outcome \in LiveOutcomes : HandleSettles(h, outcome))
        /\ WF_vars(Memoize(h))
        /\ \A i \in 1..MaxObservers : WF_vars(React(h, i))

LiveSpec == LiveInit /\ [][LiveNext]_vars /\ LiveFairness

(***************************************************************************)
(* Two handles of one fluent function: each call of $ runs               *)
(* createLazyHandle again, so each handle has an executionPromise of its   *)
(* own.                                                                    *)
(***************************************************************************)

PairIds == {1, 2}

\* 'a b'  'a 7'
PairStrings == { StrCmd(<<"a", SP, "b">>), StrCmd(<<"a", SP, "7">>) }

\* exit 0 with stdout 'o', exit 5 with stderr 'e'
PairOutcomes ==
    { [kind |-> "exit", code |-> Some(0), out |-> <<"o">>, err |-> EmptyStr],
      [kind |-> "exit", code |-> Some(5), out |-> EmptyStr, err |-> <<"e">>] }

PairInit ==
    /\ Construct(DefaultShellOptions)
    /\ call = NoExecution
    /\ fluent = "none"
    /\ handle = [h \in PairIds |-> NoHandle]
    /\ calls = <<>>

PairNext ==
    \/ AsFluent
    \/ \E h \in PairIds, cmd \in PairStrings : DollarCall(h, cmd, None)
    \/ \E h \in PairIds : ObserveThen(h)
    \/ \E h \in PairIds : ObserveResult(h)
    \/ \E h \in PairIds, outcome \in PairOutcomes : HandleSettles(h, outcome)
    \/ \E h \in PairIds : Memoize(h)
    \/ \E h \in PairIds, i \in 1..MaxObservers : React(h, i)

PairSpec == PairInit /\ [][PairNext]_vars

(***************************************************************************)
(* Properties                                                              *)
(***************************************************************************)
Created(h) == handle[h].status = "created"
Settled(o) == o.state # "pending"

\* C1: once at least one finalizer was called on a handle, whatever the
\* finalizers and however many calls, execute was called exactly once for
\* that handle and the spawn collaborator at most once (exactly once when
\* the command names a program and the shell is not in dry-run).
C1_Memoization ==
    \A h \in HandleIds :
        (Created(h) /\ Len(handle[h].observers) >= 1) =>
            /\ handle[h].executeCalls = 1
            /\ handle[h].spawnCalls <= 1
            /\ (~NoProgram(HandleArgs(handle[h])) /\ ~shell.dryRun)
                   => handle[h].spawnCalls = 1

\* two calls of different finalizers on one handle have both settled, after
\* one execution and one spawn
C1_Witness ==
    \E h \in HandleIds :
        /\ Created(h)
        /\ Len(handle[h].observers) = 2
        /\ handle[h].observers[1].kind # handle[h].observers[2].kind
        /\ \A i \in 1..2 : Settled(handle[h].observers[i])
        /\ handle[h].executeCalls = 1
        /\ handle[h].spawnCalls = 1

\* C2: a handle on which no finalizer was called yet has an empty execution
\* slot, and execute was not called for it: no spawn and no log line.
C2_Laziness ==
    \A h \in HandleIds :
        (Created(h) /\ handle[h].observers = <<>>) =>
            /\ handle[h].executionPromise = None
            /\ handle[h].execution = NoExecution
            /\ handle[h].executeCalls = 0
            /\ handle[h].spawnCalls = 0
            /\ handle[h].logCalls = 0

\* a handle made by a tagged template on a verbose shell, for a command that
\* names a program, before any finalizer call
C2_Witness ==
    \E h \in HandleIds :
        /\ Created(h)
        /\ handle[h].via = "template"
        /\ ~NoProgram(HandleArgs(handle[h]))
        /\ shell.verbose /\ ~shell.dryRun
        /\ handle[h].observers = <<>>

\* C3: when two or more finalizers were called on a handle, also while its
\* process is still running, there was one execution and at most one spawn,
\* and every call that has settled settled with what its reaction makes of
\* the one memoized promise, itself settled from that execution.
C3_OneSpawnInFlight ==
    \A h \in HandleIds :
        (Created(h) /\ Len(handle[h].observers) >= 2) =>
            /\ handle[h].executeCalls = 1
            /\ handle[h].spawnCalls = Len(handle[h].execution.spawn)
            /\ handle[h].spawnCalls <= 1
            /\ handle[h].executionPromise # None
            /\ handle[h].executionPromise[1].state # "pending"
                   => handle[h].executionPromise[1] = Memoized(handle[h].execution)
            /\ \A i \in 1..Len(handle[h].observers) :
                   LET o == handle[h].observers[i] IN
                   Settled(o) =>
                       /\ handle[h].executionPromise[1].state # "pending"
                       /\ o = Reaction(shell, handle[h], NewObserver(o.kind, o.schema),
                                       handle[h].executionPromise[1])

\* two different finalizers were called while the process is still running
C3_Witness ==
    \E h \in HandleIds :
        /\ Created(h)
        /\ handle[h].execution.state = "awaiting"
        /\ Len(handle[h].observers) = 2
        /\ handle[h].observers[1].kind # handle[h].observers[2].kind
        /\ handle[h].spawnCalls = 1

\* the program of the eager call is not empty
CallHasProgram ==
    LET args == ParseArgs(call.cmd) IN args # <<>> /\ Head(args) # EmptyStr

\* C4: an eager call for a command with a program whose dryRun (the call's
\* when defined, else the instance's, else false) is true never spawns and
\* is fulfilled with {stdout: '', stderr: '', exitCode: 0, success: true}.
C4_DryRun ==
    LET dry == IF call.options.dryRun # None THEN call.options.dryRun[1]
               ELSE IF config.dryRun # None THEN config.dryRun[1] ELSE FALSE
    IN  (call.state # "none" /\ CallHasProgram /\ dry) =>
            /\ call.state = "fulfilled"
            /\ call.spawn = <<>>
            /\ call.outcome = None
            /\ call.result = Some([stdout |-> Some(EmptyStr), stderr |-> Some(EmptyStr),
                                   exitCode |-> Some(0), success |-> TRUE])

\* run(cmd, { dryRun: true, outputMode: 'live' }) on a shell built with
\* dryRun: false has returned
C4_Witness ==
    /\ call.state = "fulfilled"
    /\ call.api = "run"
    /\ CallHasProgram
    /\ call.options.dryRun = Some(TRUE)
    /\ config.dryRun = Some(FALSE)
    /\ call.options.outputMode = Some("live")

\* the command is the empty string or the empty argv
EmptyCommand(cmd) ==
    IF cmd.array THEN cmd.argv = <<>> ELSE cmd.text = EmptyStr

IsNoCommandError(e) ==
    e # None /\ e[1].name = "Error" /\ e[1].format = "No command provided."

\* C5: an eager call (execute with any throw flag, run, safeRun) for an empty
\* command is rejected with 'No command provided.', with no log line, no
\* spawn and no result; on a handle for an empty command no log line and no
\* spawn occur either, and every finalizer call that has settled, result()
\* and safeParse() included, is rejected with that error.
C5_NoCommand ==
    /\ (call.state # "none" /\ EmptyCommand(call.cmd)) =>
           /\ call.state = "rejected"
           /\ IsNoCommandError(call.error)
           /\ call.result = None
           /\ call.log = <<>>
           /\ call.spawn = <<>>
    /\ \A h \in HandleIds :
           (Created(h) /\ EmptyCommand(handle[h].command)) =>
               /\ handle[h].logCalls = 0
               /\ handle[h].spawnCalls = 0
               /\ \A i \in 1..Len(handle[h].observers) :
                      LET o == handle[h].observers[i] IN
                      Settled(o) =>
                          /\ o.state = "rejected"
                          /\ o.value = None
                          /\ IsNoCommandError(o.error)

\* result() and safeParse() were called on a handle for an empty command and
\* both have settled
C5_Witness ==
    \E h \in HandleIds :
        /\ Created(h)
        /\ EmptyCommand(handle[h].command)
        /\ Len(handle[h].observers) = 2
        /\ handle[h].observers[1].kind = "result"
        /\ handle[h].observers[2].kind = "safeParse"
        /\ \A i \in 1..2 : Settled(handle[h].observers[i])

\* C6: the deferred layer rejects output mode 'live': asFluent() on a shell
\* whose default mode is 'live' raises instead of returning the $ function,
\* and a call of $ with outputMode 'live' raises instead of making a handle.
C6_LiveRejected ==
    /\ shell.outputMode = "live" => fluent # "function"
    /\ \A h \in HandleIds : Created(h) => handle[h].given # Some("live")

C8_ModePrecedence ==
    \A h \in HandleIds :
        (Created(h) /\ handle[h].execution.state # "none"
                    /\ handle[h].execution.eff # None) =>
            handle[h].execution.eff[1].outputMode =
                (IF handle[h].given # None THEN handle[h].given[1]
                 ELSE shell.outputMode)

\* C9: in an eager call outputMode, verbose and dryRun are each the
\* call-level value when it is defined (false included), otherwise the
\* value given to the constructor, otherwise 'capture', false, false.
C9_Precedence ==
    LET Pick(c, i, d) == IF c # None THEN c[1] ELSE IF i # None THEN i[1] ELSE d
    IN  (call.state # "none" /\ call.eff # None) =>
            /\ call.eff[1].outputMode =
                   Pick(call.options.outputMode, config.outputMode, "capture")
            /\ call.eff[1].verbose =
                   Pick(call.options.verbose, config.verbose, FALSE)
            /\ call.eff[1].dryRun =
                   Pick(call.options.dryRun, config.dryRun, FALSE)

\* a call with verbose: false on a verbose shell, with no call-level dryRun
\* on a dry-run shell, and with no output mode at either level
C9_Witness ==
    /\ call.state # "none"
    /\ call.eff # None
    /\ call.options.verbose = Some(FALSE) /\ config.verbose = Some(TRUE)
    /\ call.options.dryRun = None /\ config.dryRun = Some(TRUE)
    /\ call.options.outputMode = None /\ config.outputMode = None
    /\ call.log # <<>>

\* the env object of process options, the empty object when there is none
EnvOf(options) == IF "env" \in DOMAIN options THEN options["env"].v ELSE EmptyObject

\* C10: the process options the spawn collaborator receives hold env and
\* timeout whenever either level sets them; timeout is the call-level value
\* when the call sets it, else the instance's; env holds every variable of
\* either level, with the call-level value on a variable both set.
C10_DeepMerge ==
    (call.state # "none" /\ call.spawn # <<>>) =>
        LET inst   == IF config.execaOptions = None THEN EmptyObject
                      ELSE config.execaOptions[1]
            given  == call.options.rest
            merged == call.spawn[1].options
        IN  /\ \A k \in {"env", "timeout"} :
                   k \in DOMAIN merged <=> (k \in DOMAIN inst \/ k \in DOMAIN given)
            /\ "timeout" \in DOMAIN merged =>
                   merged["timeout"] = (IF "timeout" \in DOMAIN given
                                        THEN given["timeout"] ELSE inst["timeout"])
            /\ "env" \in DOMAIN merged =>
                   /\ DOMAIN merged["env"].v = DOMAIN EnvOf(inst) \cup DOMAIN EnvOf(given)
                   /\ \A x \in DOMAIN merged["env"].v :
                          merged["env"].v[x] = (IF x \in DOMAIN EnvOf(given)
                                                THEN EnvOf(given)[x] ELSE EnvOf(inst)[x])
            /\ (/\ inst = [env |-> Obj([A |-> "1"]), timeout |-> Scalar(5000)]
                /\ given = [env |-> Obj([B |-> "2"]), timeout |-> Scalar(9000)])
                   => /\ merged["env"].v = [A |-> "1", B |-> "2"]
                      /\ merged["timeout"].v = 9000

\* {env: {A: '1'}, timeout: 5000} at instance level met {env: {B: '2'},
\* timeout: 9000} at call level, and the process was spawned
C10_Witness ==
    /\ call.state # "none"
    /\ call.spawn # <<>>
    /\ config.execaOptions = Some([env |-> Obj([A |-> "1"]), timeout |-> Scalar(5000)])
    /\ call.options.rest = [env |-> Obj([B |-> "2"]), timeout |-> Scalar(9000)]

\* how the process of the execution e ended, if it has
Outcome(e) == IF e.state = "none" THEN None ELSE e.outcome

\* the execution e has a process that failed: it exited with a nonzero code
\* or it never started
ProcessFailed(e) ==
    /\ Outcome(e) # None
    /\ Outcome(e)[1].kind \in {"exit", "nostart"}
    /\ Outcome(e)[1].code # Some(0)

\* execute has resumed after its await and settled its promise
Resumed(e) == e.state \in {"fulfilled", "rejected"} /\ Outcome(e) # None

\* the result() calls on handle h that have settled
SettledResults(h) ==
    { i \in 1..Len(handle[h].observers) :
          handle[h].observers[i].kind = "result" /\ Settled(handle[h].observers[i]) }

\* C11: with the throw flag set (run, execute with throwOnError true) and
\* throw mode 'simple', a process that exits nonzero or never starts makes
\* the call raise and return no result; the error is the plain Error whose
\* message is 'Command failed: ' with the argv joined by spaces, 'Exit code: '
\* with the code of the failure, and the stderr text the collaborator holds
\* (the process's stderr when the stream is piped, nothing otherwise).
C11_SimpleError ==
    (/\ Resumed(call) /\ ProcessFailed(call)
     /\ call.options.throwOnError = Some(TRUE)
     /\ shell.throwMode = "simple") =>
        /\ call.state = "rejected"
        /\ call.result = None
        /\ call.error # None
        /\ call.error[1].name = "Error"
        /\ call.error[1].format
               = "Command failed: ${command}\nExit code: ${exitCode}\n${stderr}"
        /\ call.error[1].command = Join(ParseArgs(call.cmd))
        /\ call.error[1].exitCode = call.outcome[1].code
        /\ call.error[1].stderr = (IF call.eff[1].outputMode = "live" THEN EmptyStr
                                   ELSE call.outcome[1].err)

\* run('a b') in capture mode and simple throw mode raised for a process
\* that wrote 'e' to stderr and exited with code 5
C11_Witness ==
    /\ call.state = "rejected"
    /\ call.api = "run"
    /\ shell.throwMode = "simple"
    /\ call.eff = Some([outputMode |-> "capture", verbose |-> FALSE, dryRun |-> FALSE])
    /\ call.outcome = Some([kind |-> "exit", code |-> Some(5),
                            out |-> EmptyStr, err |-> <<"e">>])
    /\ call.error[1].command = <<"a", SP, "b">>

\* C12: with the throw flag set and throw mode 'raw', a process failure
\* makes execute/run raise the ExecaError the collaborator raised, itself:
\* same object, with the exit code and streams the collaborator gave it.
C12_RawError ==
    (/\ Resumed(call) /\ ProcessFailed(call)
     /\ call.options.throwOnError = Some(TRUE)
     /\ shell.throwMode = "raw") =>
        LET raised == Execa(call.spawn[1], call.outcome[1]) IN
        /\ raised.threw /\ raised.execaError
        /\ call.state = "rejected"
        /\ call.result = None
        /\ call.error # None
        /\ call.error[1].name = "ExecaError"
        /\ call.error[1].cause = Some(raised)
        /\ call.error[1].exitCode = call.outcome[1].code

\* execute('a b', { throwOnError: true }) in raw throw mode raised for a
\* process that exited with code 5
C12_Witness ==
    /\ call.state = "rejected"
    /\ call.api = "execute"
    /\ call.options.throwOnError = Some(TRUE)
    /\ shell.throwMode = "raw"
    /\ call.outcome # None
    /\ call.outcome[1].code = Some(5)

\* C13: a safe call never raises on a process failure: when the process
\* exits nonzero or never starts, safeRun and execute with throwOnError
\* false are fulfilled with a result whose success is false, and so is
\* every result() call on a handle, under either throw mode.
C13_SafeNeverRaises ==
    /\ (/\ Resumed(call) /\ ProcessFailed(call)
        /\ call.options.throwOnError = Some(FALSE)) =>
           /\ call.state = "fulfilled"
           /\ call.error = None
           /\ call.result # None
           /\ ~call.result[1].success
    /\ \A h \in HandleIds :
           (Created(h) /\ ProcessFailed(handle[h].execution)) =>
               \A i \in SettledResults(h) :
                   /\ handle[h].observers[i].state = "fulfilled"
                   /\ handle[h].observers[i].error = None
                   /\ ~handle[h].observers[i].value[1].success

\* result() on a handle settled after its process never started (command
\* not found)
C13_Witness ==
    \E h \in HandleIds :
        /\ Created(h)
        /\ Outcome(handle[h].execution) # None
        /\ Outcome(handle[h].execution)[1].kind = "nostart"
        /\ SettledResults(h) # {}

Returned(mode, text) ==
    IF mode = "live" \/ text = EmptyStr THEN None ELSE Some(text)

\* the eager call was made with the throw flag false and its process failed
SafeFailure ==
    /\ Resumed(call) /\ ProcessFailed(call)
    /\ call.options.throwOnError = Some(FALSE)

\* C15 as stated: when the throw flag is false and the process fails, the
\* returned result has stdout = null and stderr = null.
C15_NoPartialOutput ==
    SafeFailure =>
        /\ call.result # None
        /\ call.result[1].stdout = None
        /\ call.result[1].stderr = None

\* C15 amended: when the throw flag is false and the process fails, the
\* returned result holds for each stream the text the process wrote to it
\* before failing, when the stream is piped (capture, all) and the text is
\* not empty, and null otherwise.
C15_FailureKeepsOutput ==
    SafeFailure =>
        /\ call.state = "fulfilled"
        /\ call.result # None
        /\ call.result[1].stdout
               = Returned(call.eff[1].outputMode, call.outcome[1].out)
        /\ call.result[1].stderr
               = Returned(call.eff[1].outputMode, call.outcome[1].err)

\* safeRun in capture mode returned stdout 'o' and stderr 'e' of a process
\* that exited with code 5
C15_Witness ==
    /\ SafeFailure
    /\ call.api = "safeRun"
    /\ call.eff[1].outputMode = "capture"
    /\ call.outcome[1].code = Some(5)
    /\ call.result[1].stdout = Some(<<"o">>)
    /\ call.result[1].stderr = Some(<<"e">>)

\* the collaborator raised a structured failure for the eager call although
\* its throw flag is false
SafeCaught ==
    /\ Resumed(call)
    /\ call.options.throwOnError = Some(FALSE)
    /\ Execa(call.spawn[1], call.outcome[1]).execaError

SuccessIffZero(result) == result.success <=> result.exitCode = Some(0)

\* C17: every result with a success flag has success = true if and only if
\* exitCode = 0, so an absent exitCode comes with success = false: results
\* of safeRun and execute (dry-run included), the memoized result of a
\* handle and what result() returns.
C17_SuccessIffZero ==
    /\ (call.state = "fulfilled" /\ call.result # None) =>
           SuccessIffZero(call.result[1])
    /\ \A h \in HandleIds :
           Created(h) =>
               /\ (/\ handle[h].executionPromise # None
                   /\ handle[h].executionPromise[1].state = "fulfilled") =>
                      SuccessIffZero(handle[h].executionPromise[1].value[1])
               /\ \A i \in SettledResults(h) :
                      handle[h].observers[i].state = "fulfilled" =>
                          SuccessIffZero(handle[h].observers[i].value[1])

\* result() returned a result without exit code (the process never started)
\* and success = false
C17_Witness ==
    \E h \in HandleIds :
        /\ Created(h)
        /\ \E i \in SettledResults(h) :
               /\ handle[h].observers[i].state = "fulfilled"
               /\ handle[h].observers[i].value[1].exitCode = None
               /\ ~handle[h].observers[i].value[1].success

\* the eager call returned a result and its effective output mode is live
LiveResult ==
    /\ call.state = "fulfilled" /\ call.result # None
    /\ call.eff[1].outputMode = "live"

\* C18 as stated: whenever the effective output mode of an eager call is
\* 'live', stdout and stderr are null in every result it returns.
C18_LiveNull ==
    LiveResult =>
        /\ call.result[1].stdout = None
        /\ call.result[1].stderr = None

\* C18 amended: whenever the effective output mode of an eager call is
\* 'live' and the call is not a dry run, stdout and stderr are null in every
\* result it returns, whatever the process wrote; in a dry run they are the
\* empty strings of the synthetic result.
C18_LiveNullUnlessDryRun ==
    LiveResult =>
        IF call.eff[1].dryRun
        THEN /\ call.result[1].stdout = Some(EmptyStr)
             /\ call.result[1].stderr = Some(EmptyStr)
        ELSE /\ call.result[1].stdout = None
             /\ call.result[1].stderr = None

\* run in live mode returned null streams for a process that wrote 'o' and
\* 'e' and exited with 0
C18_Witness ==
    /\ LiveResult
    /\ call.api = "run"
    /\ ~call.eff[1].dryRun
    /\ call.outcome = Some([kind |-> "exit", code |-> Some(0),
                            out |-> <<"o">>, err |-> <<"e">>])
    /\ call.result[1].stdout = None

\* the eager call returned the result of a process that exited with 0, in
\* capture or all mode
CapturedSuccess ==
    /\ call.state = "fulfilled" /\ call.result # None
    /\ Outcome(call) # None
    /\ call.outcome[1].code = Some(0)
    /\ call.eff[1].outputMode \in {"capture", "all"}

C21_OneLogLine ==
    (call.state # "none" /\ call.eff # None) =>
        IF call.eff[1].verbose \/ call.eff[1].dryRun
        THEN /\ Len(call.log) = 1
             /\ call.log[1].message = <<"$", SP>> \o Join(ParseArgs(call.cmd))
             /\ call.log[1].context.command = call.cmd
             /\ call.log[1].context.execaOptions = FinalExecaOptions(shell, call.options)
             /\ call.spawn # <<>> =>
                    call.spawn[1].options = call.log[1].context.execaOptions
        ELSE call.log = <<>>

\* a verbose call that is no dry run logged '$ a b' and invoked the
\* collaborator, whose process has not ended yet
C21_Witness ==
    /\ call.state = "awaiting"
    /\ call.eff # None
    /\ call.eff[1].verbose /\ ~call.eff[1].dryRun
    /\ Len(call.log) = 1
    /\ call.log[1].message = <<"$", SP, "a", SP, "b">>
    /\ call.spawn # <<>>

\* the memoized promise of handle h is fulfilled
Memo(h) == handle[h].executionPromise[1].value[1]
HasMemo(h) ==
    /\ Created(h)
    /\ handle[h].executionPromise # None
    /\ handle[h].executionPromise[1].state = "fulfilled"

\* the calls of the finalizer kind on handle h that have settled
SettledOf(h, kind) ==
    { i \in 1..Len(handle[h].observers) :
          handle[h].observers[i].kind = kind /\ Settled(handle[h].observers[i]) }

\* C22: on one handle, every direct observation and every toLines() call
\* raises if and only if the success of the memoized result, which result()
\* returns, is false; the error of a failed one carries that result's exit
\* code and stderr, a successful direct observation yields that result's
\* stdout, repeated calls of one finalizer settle alike, and the command was
\* executed once.
C22_ConsistentOutcome ==
    \A h \in HandleIds :
        HasMemo(h) =>
            LET obs == handle[h].observers IN
            /\ handle[h].executeCalls = 1
            /\ \A i \in SettledOf(h, "result") : obs[i].value = Some(Memo(h))
            /\ \A i \in SettledOf(h, "then") \cup SettledOf(h, "toLines") :
                   /\ obs[i].state = "rejected" <=> ~Memo(h).success
                   /\ obs[i].state = "rejected" =>
                          /\ obs[i].error[1].exitCode = Memo(h).exitCode
                          /\ obs[i].error[1].stderr = Memo(h).stderr
            /\ \A i \in SettledOf(h, "then") :
                   obs[i].state = "fulfilled" => obs[i].value = Some(Memo(h).stdout)
            /\ \A kind \in {"then", "toLines", "result"} :
                   \A i, j \in SettledOf(h, kind) : obs[i] = obs[j]

\* a handle whose process exited with code 5 was awaited twice and both
\* observations raised
C22_Witness ==
    \E h \in HandleIds :
        /\ HasMemo(h)
        /\ Memo(h).exitCode = Some(5)
        /\ SettledOf(h, "then") = {1, 2}
        /\ handle[h].observers[1].state = "rejected"
        /\ handle[h].observers[2].state = "rejected"
        /\ handle[h].executeCalls = 1

\* C25: on a failed execution toLines() raises the same error, with the
\* same message, as direct observation of that handle, in throw mode
\* 'simple' and in throw mode 'raw'.
C25_SameError ==
    \A h \in HandleIds :
        Created(h) =>
            \A i \in SettledOf(h, "then") : \A j \in SettledOf(h, "toLines") :
                (/\ handle[h].observers[i].state = "rejected"
                 /\ handle[h].observers[j].state = "rejected") =>
                    handle[h].observers[i].error = handle[h].observers[j].error

\* the stdout text of result decodes as JSON to a value the schema accepts
Accepted(result, schema) ==
    /\ result.success
    /\ JsonParse(result.stdout) # None
    /\ JsonParse(result.stdout)[1] \in schema

\* C26: parse(schema) resolves, with the decoded and validated value, only
\* when the command succeeded, stdout decodes as JSON and the schema accepts
\* the decoded value; on a command failure, a decode failure and a
\* validation failure it raises, with no value.
C26_ParseRaises ==
    \A h \in HandleIds :
        HasMemo(h) =>
            \A i \in SettledOf(h, "parse") :
                LET o == handle[h].observers[i] IN
                IF Accepted(Memo(h), o.schema)
                THEN /\ o.state = "fulfilled"
                     /\ o.value = Some(JsonParse(Memo(h).stdout)[1])
                ELSE /\ o.state = "rejected"
                     /\ o.value = None
                     /\ o.error # None
                     /\ o.error[1].name = (IF ~Memo(h).success THEN "Error"
                                           ELSE IF JsonParse(Memo(h).stdout) = None
                                                THEN "SyntaxError" ELSE "Error")

\* parse(schema) raised for a command that succeeded and wrote '8', which
\* decodes to a value the schema does not accept
C26_Witness ==
    \E h \in HandleIds :
        /\ HasMemo(h)
        /\ Memo(h).success
        /\ Memo(h).stdout = <<"8">>
        /\ \E i \in SettledOf(h, "parse") :
               /\ handle[h].observers[i].state = "rejected"
               /\ handle[h].observers[i].error = Some(ValidationError)

\* C27: safeParse(schema) never raises on a command, decode or validation
\* problem. It resolves to a failure value whose one message has the
\* command text, exit code and stderr when the command failed; otherwise to
\* the 'no output to validate' failure when stdout is empty; otherwise to
\* the 'Unable to parse JSON' failure when stdout does not decode; otherwise
\* to the failure holding the schema's issues when the schema rejects the
\* value; otherwise to { success: true, data }.
C27_SafeParseOrder ==
    \A h \in HandleIds :
        HasMemo(h) =>
            \A i \in SettledOf(h, "safeParse") :
                LET o == handle[h].observers[i]
                    r == Memo(h)
                    text == Join(ParseArgs(handle[h].command))
                IN  /\ o.state = "fulfilled"
                    /\ o.error = None
                    /\ o.value[1] =
                         (IF ~r.success
                          THEN [success |-> FALSE, error |-> <<
                                 [format |-> "Command failed: ${commandStr}\nExit code: ${exitCode}\n${stderr}",
                                  command |-> text, exitCode |-> r.exitCode,
                                  stderr |-> r.stderr]>>]
                          ELSE IF r.stdout = EmptyStr
                          THEN [success |-> FALSE, error |-> <<
                                 [format |-> "The command produced no output to validate: ${commandStr}",
                                  command |-> text, exitCode |-> None,
                                  stderr |-> EmptyStr]>>]
                          ELSE IF JsonParse(r.stdout) = None
                          THEN [success |-> FALSE, error |-> <<
                                 [format |-> "Unable to parse JSON: ${e.message}\nCommand: ${commandStr}",
                                  command |-> text, exitCode |-> None,
                                  stderr |-> EmptyStr]>>]
                          ELSE IF JsonParse(r.stdout)[1] \notin o.schema
                          THEN [success |-> FALSE, error |-> <<SchemaIssue>>]
                          ELSE [success |-> TRUE, data |-> JsonParse(r.stdout)[1]])

\* safeParse(schema) resolved to the 'no output to validate' failure for a
\* command that succeeded without output
C27_Witness ==
    \E h \in HandleIds :
        /\ HasMemo(h)
        /\ Memo(h).success
        /\ Memo(h).stdout = EmptyStr
        /\ Outcome(handle[h].execution) # None
        /\ \E i \in SettledOf(h, "safeParse") :
               /\ handle[h].observers[i].state = "fulfilled"
               /\ ~handle[h].observers[i].value[1].success

\* C28: for one command output and one schema, parse(schema) resolves to a
\* value v if and only if safeParse(schema) resolves to
\* { success: true, data: v }.
C28_ParseAgreesWithSafeParse ==
    \A h \in HandleIds :
        Created(h) =>
            \A i \in SettledOf(h, "parse") : \A j \in SettledOf(h, "safeParse") :
                LET p == handle[h].observers[i]
                    q == handle[h].observers[j]
                IN  p.schema = q.schema =>
                        /\ p.state = "fulfilled"
                               <=> (q.state = "fulfilled" /\ q.value[1].success)
                        /\ p.state = "fulfilled" => q.value[1].data = p.value[1]

\* parse(schema) and safeParse(schema) on one handle both resolved with the
\* value 7
C28_Witness ==
    \E h \in HandleIds :
        /\ Created(h)
        /\ \E i \in SettledOf(h, "parse") : \E j \in SettledOf(h, "safeParse") :
               /\ handle[h].observers[i].state = "fulfilled"
               /\ handle[h].observers[i].value = Some(7)
               /\ handle[h].observers[j].value = Some([success |-> TRUE, data |-> 7])

\* C23: on a handle whose execution succeeded, direct observation yields
\* the stdout of the result result() returns, which is the text the process
\* wrote, and toLines() yields the split of that very text (nothing when it
\* is empty), whichever of these finalizers was called first.
C23_SameText ==
    \A h \in HandleIds :
        (HasMemo(h) /\ Memo(h).success) =>
            LET obs == handle[h].observers
                text == handle[h].execution.outcome[1].out
            IN  /\ Memo(h).stdout = text
                /\ \A i \in SettledOf(h, "result") :
                       /\ obs[i].state = "fulfilled"
                       /\ obs[i].value[1].stdout = text
                /\ \A i \in SettledOf(h, "then") :
                       /\ obs[i].state = "fulfilled"
                       /\ obs[i].value = Some(text)
                /\ \A i \in SettledOf(h, "toLines") :
                       /\ obs[i].state = "fulfilled"
                       /\ obs[i].value[1] = (IF text = EmptyStr THEN <<>>
                                             ELSE SplitLines(text))

\* toLines() was called before the handle was awaited, and both settled for
\* a process that wrote 'a\nb'
C23_Witness ==
    \E h \in HandleIds :
        /\ HasMemo(h)
        /\ Memo(h).success
        /\ Len(handle[h].observers) = 2
        /\ handle[h].observers[1].kind = "toLines"
        /\ handle[h].observers[2].kind = "then"
        /\ handle[h].observers[1].value = Some(<< <<"a">>, <<"b">> >>)
        /\ handle[h].observers[2].value = Some(<<"a", "\n", "b">>)

RECURSIVE JoinLF(_)
\* the lines put together again with \n between them
JoinLF(lines) ==
    IF Len(lines) = 1 THEN lines[1]
    ELSE lines[1] \o <<"\n">> \o JoinLF(Tail(lines))

RECURSIVE DropCRLF(_)
\* the text with every \r\n turned into \n
DropCRLF(s) ==
    IF s = <<>> THEN <<>>
    ELSE IF Head(s) = "\r" /\ Len(s) > 1 /\ s[2] = "\n" THEN <<"\n">> \o DropCRLF(Tail(Tail(s)))
    ELSE <<Head(s)>> \o DropCRLF(Tail(s))

\* the number of \n in the text
CountLF(s) == Cardinality({ k \in 1..Len(s) : s[k] = "\n" })

\* C24: on success toLines() returns the stdout text split on \r?\n, in
\* order: one line more than the text has \n, no line holding a \n, and the
\* lines joined by \n giving the text back with its \r\n read as \n; stdout
\* 'a\nb\r\nc' yields ['a', 'b', 'c'], and empty stdout yields the empty
\* sequence.
C24_ToLines ==
    \A h \in HandleIds :
        (HasMemo(h) /\ Memo(h).success) =>
            \A i \in SettledOf(h, "toLines") :
                LET text == handle[h].execution.outcome[1].out
                    lines == handle[h].observers[i].value[1]
                IN  /\ handle[h].observers[i].state = "fulfilled"
                    /\ text = EmptyStr => lines = <<>>
                    /\ text # EmptyStr =>
                           /\ Len(lines) = CountLF(text) + 1
                           /\ \A k \in 1..Len(lines) : CountLF(lines[k]) = 0
                           /\ JoinLF(lines) = DropCRLF(text)
                    /\ text = <<"a", "\n", "b", "\r", "\n", "c">> =>
                           lines = << <<"a">>, <<"b">>, <<"c">> >>

\* toLines() returned ['a', 'b', 'c'] for stdout 'a\nb\r\nc'
C24_Witness ==
    \E h \in HandleIds :
        /\ HasMemo(h)
        /\ Memo(h).stdout = <<"a", "\n", "b", "\r", "\n", "c">>
        /\ \E i \in SettledOf(h, "toLines") :
               handle[h].observers[i].value = Some(<< <<"a">>, <<"b">>, <<"c">> >>)

\* the text of an interpolated value: a string as it is, a number in digits
Plain(value) ==
    IF value.type = "string" THEN value.s ELSE <<DigitChars[value.n + 1]>>

\* parts[0] + String(values[0]) + parts[1] + ... + parts[n], for n <= 2
Concatenation(t) ==
    CASE Len(t.values) = 0 -> t.parts[1]
      [] Len(t.values) = 1 -> t.parts[1] \o Plain(t.values[1]) \o t.parts[2]
      [] Len(t.values) = 2 -> t.parts[1] \o Plain(t.values[1]) \o t.parts[2]
                                  \o Plain(t.values[2]) \o t.parts[3]

\* C29: a tagged-template call of $ makes the handle the string call of $
\* makes for the string parts[0] + String(values[0]) + ... + parts[n], the
\* values inserted as they are; such a handle executes the argv that string
\* tokenizes to, so a value with a space in it gives two arguments.
C29_TaggedTemplate ==
    /\ [][\A h \in HandleIds : \A t \in FluentTemplates :
              DollarTemplate(h, t) =>
                  handle'[h] = [CreateLazyHandle(StrCmd(Concatenation(t)), "call", None)
                                    EXCEPT !.via = "template"]]_vars
    /\ [](\A h \in HandleIds :
              (Created(h) /\ handle[h].via = "template"
                          /\ handle[h].execution.state # "none") =>
                  /\ ~handle[h].command.array
                  /\ handle[h].execution.args = Tokenize(handle[h].command.text)
                  /\ handle[h].execution = [ExecuteStart(shell, "safeRun",
                                                handle[h].command, HandleRunOptions)
                                              EXCEPT !.state = handle[h].execution.state,
                                                     !.outcome = handle[h].execution.outcome,
                                                     !.result = handle[h].execution.result,
                                                     !.error = handle[h].execution.error])

\* the handle of $`a ${'b c'}` ran the program a with the two arguments b
\* and c, and its observation settled
C29_Witness ==
    \E h \in HandleIds :
        /\ Created(h)
        /\ handle[h].via = "template"
        /\ handle[h].command.text = <<"a", SP, "b", SP, "c">>
        /\ handle[h].execution.state = "fulfilled"
        /\ handle[h].execution.spawn[1].program = <<"a">>
        /\ handle[h].execution.spawn[1].args = << <<"b">>, <<"c">> >>
        /\ SettledOf(h, "then") # {}

\* the handles $ has returned
Made == { h \in PairIds : Created(h) }

\* the handles a finalizer was called on
Consumed == { h \in PairIds : Created(h) /\ handle[h].observers # <<>> }

RECURSIVE Executions(_)
\* the number of execute calls the handles of S made together
Executions(S) ==
    IF S = {} THEN 0
    ELSE LET h == CHOOSE x \in S : TRUE
         IN  handle[h].executeCalls + Executions(S \ {h})

\* C30: the handles of one fluent function are independent: each consumed
\* handle executes its command once and no other handle does, so k consumed
\* handles make k executions, also when they are made for the same command;
\* the result a handle keeps is that of its own process; and a step of one
\* handle leaves every other handle as it was.
C30_Independent ==
    /\ [](/\ \A h \in PairIds :
                 Created(h) =>
                     /\ handle[h].executeCalls = (IF h \in Consumed THEN 1 ELSE 0)
                     /\ handle[h].spawnCalls = handle[h].executeCalls
          /\ Executions(Made) = Cardinality(Consumed)
          /\ \A h \in PairIds :
                 HasMemo(h) =>
                     /\ Memo(h).exitCode = handle[h].execution.outcome[1].code
                     /\ Memo(h).success = (handle[h].execution.outcome[1].code = Some(0))
                     /\ Memo(h).stderr = handle[h].execution.outcome[1].err)
    /\ [][\A h \in PairIds : \A g \in PairIds \ {h} :
              handle'[h] # handle[h] => handle'[g] = handle[g]]_vars

\* two handles made for the same command were both awaited: two executions,
\* the first succeeded and the second failed with exit code 5
C30_Witness ==
    /\ Consumed = {1, 2}
    /\ handle[1].command = handle[2].command
    /\ Executions(Made) = 2
    /\ HasMemo(1) /\ Memo(1).success
    /\ HasMemo(2) /\ ~Memo(2).success /\ Memo(2).exitCode = Some(5)
    /\ SettledOf(1, "then") # {} /\ SettledOf(2, "then") # {}

\* the eager calls made so far, the one in progress last
AllCalls == IF call.state = "none" THEN calls ELSE Append(calls, call)

\* the value the constructor was given for a field, or the built-in default
Given(field, default) ==
    IF config[field] = None THEN default ELSE config[field][1]

\* the call was made with an override of a shell option or with process
\* options of its own
Overridden(c) ==
    \/ c.options.outputMode # None
    \/ c.options.verbose # None
    \/ c.options.dryRun # None
    \/ DOMAIN c.options.rest # {}

\* C31: no call changes the instance: its fields stay what the constructor
\* made of its options; the options a call resolves are its own overrides
\* where it gives them and the constructor's values elsewhere, whatever the
\* calls before it were given; a call without overrides resolves to the
\* constructor's values and hands the instance's env to the process.
C31_InstanceReadOnly ==
    /\ [][shell' = shell /\ config' = config]_vars
    /\ [](/\ shell.outputMode = Given("outputMode", "capture")
          /\ shell.dryRun = Given("dryRun", FALSE)
          /\ shell.verbose = Given("verbose", FALSE)
          /\ shell.throwMode = Given("throwMode", "simple")
          /\ shell.execaOptions = Given("execaOptions", EmptyObject)
          /\ \A i \in 1..Len(AllCalls) :
                 LET c == AllCalls[i]
                     o == c.options
                 IN  c.eff # None =>
                         /\ c.eff[1].outputMode =
                                (IF o.outputMode # None THEN o.outputMode[1]
                                 ELSE Given("outputMode", "capture"))
                         /\ c.eff[1].verbose =
                                (IF o.verbose # None THEN o.verbose[1]
                                 ELSE Given("verbose", FALSE))
                         /\ c.eff[1].dryRun =
                                (IF o.dryRun # None THEN o.dryRun[1]
                                 ELSE Given("dryRun", FALSE))
                         /\ (~Overridden(c) /\ c.spawn # <<>>) =>
                                EnvOf(c.spawn[1].options) =
                                    EnvOf(Given("execaOptions", EmptyObject)))

\* on an instance made with outputMode 'live', verbose and env A=1, a call
\* with outputMode 'all', verbose false and env A=2, B=2 ran with these, and
\* the call after it, without overrides, runs in live mode, verbose, with
\* env A=1 alone
C31_Witness ==
    /\ Len(calls) >= 1
    /\ config.outputMode = Some("live")
    /\ calls[1].eff = Some([outputMode |-> "all", verbose |-> FALSE, dryRun |-> FALSE])
    /\ calls[1].spawn # <<>>
    /\ EnvOf(calls[1].spawn[1].options) = [k \in {"A", "B"} |-> "2"]
    /\ call.state = "awaiting"
    /\ ~Overridden(call)
    /\ call.eff = Some([outputMode |-> "live", verbose |-> TRUE, dryRun |-> FALSE])
    /\ call.spawn[1].options["stdout"].v = {"inherit"}
    /\ EnvOf(call.spawn[1].options) = [k \in {"A"} |-> "1"]

\* how the call ended: the cases that hold of a settled call
Endings(c) ==
    { k \in {"raised", "dry-run success", "success result", "failure result"} :
        CASE k = "raised" ->
               c.state = "rejected" /\ c.error # None /\ c.result = None
          [] k = "dry-run success" ->
               /\ c.state = "fulfilled" /\ c.spawn = <<>> /\ c.error = None
               /\ c.result = Some([stdout |-> Some(EmptyStr), stderr |-> Some(EmptyStr),
                                   exitCode |-> Some(0), success |-> TRUE])
          [] k = "success result" ->
               /\ c.state = "fulfilled" /\ c.spawn # <<>> /\ c.error = None
               /\ c.result # None /\ c.result[1].success
          [] k = "failure result" ->
               /\ c.state = "fulfilled" /\ c.spawn # <<>> /\ c.error = None
               /\ c.result # None /\ ~c.result[1].success }

\* the call names a program and is not a dry run
MustSpawn(c) ==
    /\ ~EmptyCommand(c.cmd)
    /\ ~(IF c.options.dryRun # None THEN c.options.dryRun[1] ELSE Given("dryRun", FALSE))

\* C35: every call of execute, run or safeRun invokes the spawn collaborator
\* at most once, and exactly once when its command names a program and the
\* call is not a dry run, whatever calls were made before it; such a call
\* is suspended on the collaborator when it starts, never answered from an
\* earlier call; and a call that has settled ended in exactly one of raised
\* error, synthetic dry-run success, success result and failure result.
C35_OneShot ==
    /\ [](\A i \in 1..Len(AllCalls) :
              LET c == AllCalls[i] IN
              /\ Len(c.spawn) = (IF MustSpawn(c) THEN 1 ELSE 0)
              /\ c.state \in {"awaiting", "fulfilled", "rejected"}
              /\ c.state = "awaiting" => c.spawn # <<>> /\ c.result = None /\ c.error = None
              /\ c.state # "awaiting" => Cardinality(Endings(c)) = 1)
    /\ [][(call.state = "none" /\ call'.state # "none" /\ MustSpawn(call'))
              => call'.state = "awaiting" /\ call'.outcome = None]_vars

\* run('a b') was called twice: two spawn attempts, the first process
\* exited with 0 and the second with 5, so the second call raised
C35_Witness ==
    /\ Len(calls) = 2
    /\ calls[1].api = "run" /\ calls[2].api = "run"
    /\ calls[1].cmd = calls[2].cmd
    /\ calls[1].options = calls[2].options
    /\ Len(calls[1].spawn) = 1 /\ Len(calls[2].spawn) = 1
    /\ Endings(calls[1]) = {"success result"}
    /\ Endings(calls[2]) = {"raised"}

\* capture: pipe; live: inherit; all: pipe and inherit
Wiring(mode) ==
    IF mode = "capture" THEN {"pipe"}
    ELSE IF mode = "live" THEN {"inherit"}
    ELSE {"pipe", "inherit"}

\* the throw flag of the call: throwOnError, true when left out
ThrowFlag(c) ==
    IF c.options.throwOnError = None THEN TRUE ELSE c.options.throwOnError[1]

\* the value the process options of the call or, failing that, of the
\* instance give to key, or default when neither names it
ProcessOption(c, key, default) ==
    IF key \in DOMAIN c.options.rest THEN c.options.rest[key].v
    ELSE IF key \in DOMAIN Given("execaOptions", EmptyObject)
         THEN Given("execaOptions", EmptyObject)[key].v
         ELSE default

\* C32 as stated: whenever the collaborator is invoked, stdout and stderr
\* are wired as the effective output mode says and reject is the call's
\* throw flag.
C32_WiringAndReject ==
    (call.state # "none" /\ call.spawn # <<>>) =>
        LET o == call.spawn[1].options IN
        /\ o["stdout"].v = Wiring(call.eff[1].outputMode)
        /\ o["stderr"].v = Wiring(call.eff[1].outputMode)
        /\ o["reject"].v = ThrowFlag(call)

\* C32 as amended: a dry run never invokes the collaborator; otherwise it
\* is invoked once, with stdout and stderr wired as the effective output
\* mode says and reject equal to the throw flag, except for those of the
\* three keys that the process options of the call or of the instance name:
\* these have the value given there, the call's before the instance's.
C32_WiringUnlessOverridden ==
    call.state # "none" =>
        /\ call.eff[1].dryRun => call.spawn = <<>>
        /\ ~call.eff[1].dryRun =>
               /\ Len(call.spawn) = 1
               /\ LET o == call.spawn[1].options
                      w == Wiring(call.eff[1].outputMode)
                  IN  /\ o["stdout"].v = ProcessOption(call, "stdout", w)
                      /\ o["stderr"].v = ProcessOption(call, "stderr", w)
                      /\ o["reject"].v = ProcessOption(call, "reject", ThrowFlag(call))

\* safeRun('a b', { outputMode: 'all', reject: true }) on an instance in
\* live mode: both streams piped and inherited, and reject true although
\* the throw flag is false
C32_Witness ==
    /\ call.state = "awaiting"
    /\ call.api = "safeRun"
    /\ config.outputMode = Some("live")
    /\ call.options.outputMode = Some("all")
    /\ call.spawn[1].options["stdout"].v = {"pipe", "inherit"}
    /\ call.spawn[1].options["stderr"].v = {"pipe", "inherit"}
    /\ ~ThrowFlag(call)
    /\ call.spawn[1].options["reject"].v = TRUE

\* what run(cmd, options) settles to when its process ends as outcome says
RunSettled(c) ==
    ExecuteSettle(shell,
                  ExecuteStart(shell, "run", c.cmd,
                               [c.options EXCEPT !.throwOnError = Some(TRUE)]),
                  c.outcome[1])

\* C33: an execute call made without throwOnError passes reject: true to
\* the collaborator and, when its process fails, raises the error run()
\* raises for that command and that process, returning no result.
C33_ExecuteRaisesLikeRun ==
    (/\ call.state # "none"
     /\ call.api = "execute"
     /\ call.options.throwOnError = None
     /\ Resumed(call) /\ ProcessFailed(call)) =>
        /\ call.spawn[1].options["reject"].v = TRUE
        /\ call.state = "rejected"
        /\ call.result = None
        /\ call.error = RunSettled(call).error

\* the parts of the message of an error
Message(e) ==
    [format |-> e.format, command |-> e.command, exitCode |-> e.exitCode,
     stderr |-> e.stderr]

\* the earlier run() calls for the command of handle h whose process ended
\* as the process of h did
SameRun(h) ==
    { k \in 1..Len(calls) :
          /\ calls[k].api = "run"
          /\ calls[k].cmd = handle[h].command
          /\ Outcome(handle[h].execution) # None
          /\ calls[k].outcome = handle[h].execution.outcome }

\* C34: in throw mode 'simple', a direct observation of a handle raises
\* exactly when run() raised for the same command and the same process
\* outcome, and its error has the message of the error run() raised: the
\* same command text, exit code and stderr.
C34_SameMessage ==
    \A h \in HandleIds :
        (Created(h) /\ shell.throwMode = "simple") =>
            \A i \in SettledOf(h, "then") : \A k \in SameRun(h) :
                LET o == handle[h].observers[i] IN
                /\ o.state = "rejected" <=> calls[k].state = "rejected"
                /\ o.state = "rejected" =>
                       Message(o.error[1]) = Message(calls[k].error[1])

\* the earlier runParse() calls for the command of handle h whose process
\* ended as the process of h did
SameRunParse(h) ==
    { k \in 1..Len(calls) :
          /\ calls[k].api = "runParse"
          /\ calls[k].cmd = handle[h].command
          /\ Outcome(handle[h].execution) # None
          /\ calls[k].outcome = handle[h].execution.outcome }

\* C36: for one command, one schema and one process outcome, runParse and
\* parse() on a handle either both raise or both return the same validated
\* value.
C36_RunParseAgrees ==
    \A h \in HandleIds :
        Created(h) =>
            \A i \in SettledOf(h, "parse") : \A k \in SameRunParse(h) :
                LET o == handle[h].observers[i] IN
                o.schema = calls[k].schema =>
                    /\ o.state = calls[k].returned.state
                    /\ o.state = "fulfilled" => o.value = calls[k].returned.value

\* the handle is one of an instance in dry-run for a command with a program
DryHandle(h) ==
    /\ Created(h)
    /\ shell.dryRun
    /\ ~NoProgram(ParseArgs(handle[h].command))

\* C37: on an instance in dry-run, a handle for a command that names a
\* program never invokes the spawn collaborator, its execution is settled
\* as soon as it starts, and each finalizer call that has settled did so
\* from the synthetic result: direct observation resolved to '', toLines()
\* to the empty sequence, result() to { success: true, stdout: '',
\* stderr: '', exitCode: 0 }, safeParse() to the failure 'no output to
\* validate', and parse() raised the decode error.
C37_DryRunFinalizers ==
    \A h \in HandleIds :
        DryHandle(h) =>
            /\ handle[h].spawnCalls = 0
            /\ handle[h].execution.state \in {"none", "fulfilled"}
            /\ handle[h].execution.state = "fulfilled" =>
                   handle[h].execution.spawn = <<>> /\ handle[h].execution.outcome = None
            /\ \A i \in 1..Len(handle[h].observers) :
                   LET o == handle[h].observers[i] IN
                   Settled(o) =>
                       CASE o.kind = "then" ->
                              o.state = "fulfilled" /\ o.value = Some(EmptyStr)
                         [] o.kind = "toLines" ->
                              o.state = "fulfilled" /\ o.value = Some(<<>>)
                         [] o.kind = "result" ->
                              /\ o.state = "fulfilled"
                              /\ o.value = Some([success |-> TRUE, stdout |-> EmptyStr,
                                                 stderr |-> EmptyStr, exitCode |-> Some(0)])
                         [] o.kind = "safeParse" ->
                              /\ o.state = "fulfilled"
                              /\ ~o.value[1].success
                              /\ Len(o.value[1].error) = 1
                              /\ o.value[1].error[1].format =
                                     "The command produced no output to validate: ${commandStr}"
                         [] o.kind = "parse" ->
                              /\ o.state = "rejected"
                              /\ o.error[1].name = "SyntaxError"

\* on an instance in dry-run, parse() raised and safeParse() returned its
\* failure on one handle that never spawned
C37_Witness ==
    \E h \in HandleIds :
        /\ DryHandle(h)
        /\ Len(handle[h].observers) = 2
        /\ handle[h].observers[1].kind = "parse"
        /\ handle[h].observers[1].state = "rejected"
        /\ handle[h].observers[2].kind = "safeParse"
        /\ handle[h].observers[2].state = "fulfilled"
        /\ handle[h].spawnCalls = 0

\* the process of execution e ended in an error of the collaborator that is
\* no structured process failure
Crashed(e) == Outcome(e) # None /\ Outcome(e)[1].kind = "crash"

\* the error is the one the collaborator raised for the spawn attempt of e
IsCollaboratorError(err, e) ==
    /\ err # None
    /\ err[1].name = "TypeError"
    /\ err[1].format = "other"
    /\ err[1].cause # None
    /\ err[1].cause[1].threw /\ ~err[1].cause[1].execaError
    /\ err[1].cause[1] = Execa(e.spawn[1], e.outcome[1])

\* C39: when the collaborator raises an error that is no structured process
\* failure, the eager call (execute with or without a throw flag, run,
\* safeRun, in either throw mode) raises that very error and returns no
\* result; on a handle the memoized promise is rejected with it, and every
\* finalizer call, result() included, raises it instead of settling with a
\* value.
C39_OtherErrorPropagates ==
    /\ (call.state \in {"fulfilled", "rejected"} /\ Crashed(call)) =>
           /\ call.state = "rejected"
           /\ call.result = None
           /\ IsCollaboratorError(call.error, call)
    /\ \A h \in HandleIds :
           (Created(h) /\ Crashed(handle[h].execution)) =>
               LET e == handle[h].execution IN
               /\ e.state = "rejected" /\ e.result = None
               /\ IsCollaboratorError(e.error, e)
               /\ handle[h].executionPromise[1].state # "fulfilled"
               /\ handle[h].executionPromise[1].state = "rejected" =>
                      handle[h].executionPromise[1].error = e.error
               /\ \A i \in 1..Len(handle[h].observers) :
                      LET o == handle[h].observers[i] IN
                      Settled(o) =>
                          /\ o.state = "rejected"
                          /\ o.value = None
                          /\ o.error = e.error

\* in throw mode 'raw', result() and safeParse() on a handle both raised the
\* error of the collaborator
C39_Witness ==
    \E h \in HandleIds :
        /\ Created(h)
        /\ shell.throwMode = "raw"
        /\ Crashed(handle[h].execution)
        /\ Len(handle[h].observers) = 2
        /\ handle[h].observers[1].kind = "result"
        /\ handle[h].observers[1].state = "rejected"
        /\ handle[h].observers[2].kind = "safeParse"
        /\ handle[h].observers[2].state = "rejected"
        /\ handle[h].observers[1].error[1].name = "TypeError"

\* the i-th finalizer call on handle h was made
Invoked(h, i) == Created(h) /\ Len(handle[h].observers) >= i

\* C38: the spawn collaborator completing every spawn attempt, every
\* finalizer call on a handle, the first as well as those made while the
\* execution was under way or after it, eventually settles: it resolves or
\* it rejects.
C38_FinalizersSettle ==
    \A h \in HandleIds : \A i \in 1..MaxObservers :
        Invoked(h, i) ~> (Invoked(h, i) /\ Settled(handle[h].observers[i]))

\* after an error of the collaborator, two finalizer calls of one handle
\* have both settled, the second one made on the execution the first began
C38_Witness ==
    \E h \in HandleIds :
        /\ Created(h)
        /\ Crashed(handle[h].execution)
        /\ handle[h].executeCalls = 1
        /\ Len(handle[h].observers) = 2
        /\ handle[h].observers[1].kind = "then"
        /\ handle[h].observers[2].kind = "toLines"
        /\ Settled(handle[h].observers[1])
        /\ Settled(handle[h].observers[2])

====
